---- MODULE Spec2Model ----
(***************************************************************************)
(* EinStein wuerfelt nicht: the rules engine (core/game_engine.py) and the *)
(* probability-guided MCTS (core/pmcts.py).                                *)
(*                                                                         *)
(* Encoding taken from the code: a board is a 5x5 array of integers,       *)
(* 0 = empty, 1..6 = Red tokens, 7..12 = Blue tokens; the player argument  *)
(* is 1 for Blue and -1 for Red ("player == 1" selects Blue, anything else *)
(* Red).  A move is <<from_x, from_y, to_x, to_y>>; Python's None is <<>>. *)
(* The array is kept row-major: cell (x, y) is element x*5 + y + 1.        *)
(***************************************************************************)
EXTENDS Integers, Sequences, FiniteSets, TLC

VARIABLES
    board,        \* rules: the board the engine is called on next
    prev_board,   \* rules: contents of the array handed to the last make_move, before the call
    prev_after,   \* rules: contents of that same array after the call
    move,         \* rules: the move of the last make_move call, None before the first
    run,          \* search: the state of one PMCTS.search call (arguments, tree, locals)
    twin,         \* search: the same call with the same random draws on an interpreter
                  \*         that iterates sets in the opposite order
    battle,       \* ai_battle: the state of one AIBattleSystem.single_battle call
    harness,      \* ai_battle: an AIBattleSystem and the batch_battle call running on it
    workers,      \* ai_battle: the games of a parallel batch_battle, under two schedules
    tournament,   \* ai_battle: one AIBattleSystem.tournament call
    opening,      \* ai_battle: one _generate_default_board call
    selection,    \* pmcts: one select_best_move_child_ucb call of a PMCTS object
    exchange,     \* ai_red: one run of main(), from the input file to the output file
    evaluation,   \* rules: one evaluate_position call
    rollout,      \* pmcts: one MCTSNode.simulate call
    gui           \* gui_main: the game window, over one click on the board

rule_vars == <<board, prev_board, prev_after, move>>
search_vars == <<run, twin>>
battle_vars == <<battle, harness, workers>>
tool_vars == <<tournament, opening, selection, exchange, evaluation>>
vars == <<board, prev_board, prev_after, move, run, twin, battle, harness, workers,
          tournament, opening, selection, exchange, evaluation, rollout, gui>>

None == <<>>
Blue == 1
Red == -1
Players == {Blue, Red}
Dice == 1..6

board_size == 5

Cells == (0..(board_size - 1)) \X (0..(board_size - 1))
Idx(x, y) == x * board_size + y + 1
At(b, x, y) == b[Idx(x, y)]

Range(s) == {s[i] : i \in 1..Len(s)}

\* An array holding the given tokens: placed is a set of <<token, x, y>>.
BoardOf(placed) ==
    [i \in 1..(board_size * board_size) |->
        IF \E t \in placed : Idx(t[2], t[3]) = i
        THEN (CHOOSE t \in placed : Idx(t[2], t[3]) = i)[1]
        ELSE 0]

(***************************************************************************)
(* core/game_engine.py                                                     *)
(***************************************************************************)

_piece_exists_on_board(b, piece) == \E i \in 1..Len(b) : b[i] = piece

\* np.where scans row-major; the first hit is returned.
_find_piece_position(b, piece) ==
    LET positions == {i \in 1..Len(b) : b[i] = piece}
        first == CHOOSE i \in positions : \A k \in positions : i <= k
    IN  IF positions # {}
        THEN <<(first - 1) \div board_size, (first - 1) % board_size>>
        ELSE None

_get_movement_directions(player) ==
    IF player = 1
    THEN << <<-1, 0>>, <<0, -1>>, <<-1, -1>> >>
    ELSE << <<1, 0>>, <<0, 1>>, <<1, 1>> >>

\* the bounds check with the last row and column left out
_is_position_valid_off_by_one(x, y) ==
    0 <= x /\ x < board_size - 1 /\ 0 <= y /\ y < board_size - 1

_is_position_valid(x, y) ==
    0 <= x /\ x < board_size /\ 0 <= y /\ y < board_size

\* the upward loop without its break: the last alive number above wins
_find_movable_pieces_no_break(b, die, player) ==
    LET target_piece == IF player = 1 THEN die + 6 ELSE die
        range_min == IF player = 1 THEN 7 ELSE 1
        range_max == IF player = 1 THEN 12 ELSE 6
        alive_pieces == {n \in range_min..range_max : _piece_exists_on_board(b, n)}
        above == {n \in (target_piece + 1)..range_max : n \in alive_pieces}
        below == {n \in range_min..(target_piece - 1) : n \in alive_pieces}
        upper_candidate == CHOOSE n \in above : \A k \in above : n >= k
        lower_candidate == CHOOSE n \in below : \A k \in below : n >= k
    IN  IF target_piece \in alive_pieces
        THEN <<target_piece>>
        ELSE (IF above # {} THEN <<upper_candidate>> ELSE <<>>)
             \o (IF below # {} THEN <<lower_candidate>> ELSE <<>>)

_find_movable_pieces(b, die, player) ==
    LET target_piece == IF player = 1 THEN die + 6 ELSE die
        range_min == IF player = 1 THEN 7 ELSE 1
        range_max == IF player = 1 THEN 12 ELSE 6
        alive_pieces == {n \in range_min..range_max : _piece_exists_on_board(b, n)}
        \* the upward loop breaks at the first alive number, the downward loop too
        above == {n \in (target_piece + 1)..range_max : n \in alive_pieces}
        below == {n \in range_min..(target_piece - 1) : n \in alive_pieces}
        upper_candidate == CHOOSE n \in above : \A k \in above : n <= k
        lower_candidate == CHOOSE n \in below : \A k \in below : n >= k
    IN  IF target_piece \in alive_pieces
        THEN <<target_piece>>
        ELSE (IF above # {} THEN <<upper_candidate>> ELSE <<>>)
             \o (IF below # {} THEN <<lower_candidate>> ELSE <<>>)

\* the inner loop with destinations holding an own token filtered out
MovesOfPiece_skip_own(b, piece, player) ==
    LET piece_position == _find_piece_position(b, piece)
        directions == _get_movement_directions(player)
        targets == [i \in 1..3 |->
                       <<piece_position[1], piece_position[2],
                         piece_position[1] + directions[i][1],
                         piece_position[2] + directions[i][2]>>]
        own(t) == IF player = 1 THEN t >= 7 /\ t <= 12 ELSE t >= 1 /\ t <= 6
    IN  IF piece_position = None
        THEN <<>>
        ELSE SelectSeq(targets, LAMBDA m : /\ _is_position_valid(m[3], m[4])
                                           /\ ~own(At(b, m[3], m[4])))

\* the inner loop of get_legal_moves for one movable piece
MovesOfPiece(b, piece, player) ==
    LET piece_position == _find_piece_position(b, piece)
        directions == _get_movement_directions(player)
        targets == [i \in 1..3 |->
                       <<piece_position[1], piece_position[2],
                         piece_position[1] + directions[i][1],
                         piece_position[2] + directions[i][2]>>]
    IN  IF piece_position = None
        THEN <<>>
        ELSE SelectSeq(targets, LAMBDA m : _is_position_valid(m[3], m[4]))

RECURSIVE MovesOfPieces(_, _, _)
MovesOfPieces(b, pieces, player) ==
    IF pieces = <<>>
    THEN <<>>
    ELSE MovesOfPiece(b, Head(pieces), player) \o MovesOfPieces(b, Tail(pieces), player)

get_legal_moves(b, die, player) ==
    MovesOfPieces(b, _find_movable_pieces(b, die, player), player)

\* make_move leaving the moved token on its source cell as well
make_move_keep_source(b, m) ==
    LET piece == At(b, m[1], m[2])
        placed == [b EXCEPT ![Idx(m[3], m[4])] = piece]
    IN  [new_board |-> placed, board |-> b]

\* make_move writing into its argument instead of a copy
make_move_in_place(b, m) ==
    LET piece == At(b, m[1], m[2])
        cleared == [b EXCEPT ![Idx(m[1], m[2])] = 0]
        placed == [cleared EXCEPT ![Idx(m[3], m[4])] = piece]
    IN  [new_board |-> placed, board |-> placed]

\* The call works on two arrays: the argument and its copy.  The result names
\* the contents of both when the call returns.
make_move(b, m) ==
    LET new_board == b
        piece == At(new_board, m[1], m[2])
        cleared == [new_board EXCEPT ![Idx(m[1], m[2])] = 0]
        placed == [cleared EXCEPT ![Idx(m[3], m[4])] = piece]
    IN  [new_board |-> placed, board |-> b]

red_count(b) == Cardinality({i \in 1..Len(b) : b[i] >= 1 /\ b[i] <= 6})
blue_count(b) == Cardinality({i \in 1..Len(b) : b[i] >= 7 /\ b[i] <= 12})

\* is_game_over without the piece-count condition
is_game_over_corners_only(b) ==
    IF 1 <= At(b, 4, 4) /\ At(b, 4, 4) <= 6 THEN TRUE
    ELSE IF 7 <= At(b, 0, 0) /\ At(b, 0, 0) <= 12 THEN TRUE
    ELSE FALSE

is_game_over(b) ==
    IF 1 <= At(b, 4, 4) /\ At(b, 4, 4) <= 6 THEN TRUE
    ELSE IF 7 <= At(b, 0, 0) /\ At(b, 0, 0) <= 12 THEN TRUE
    ELSE IF red_count(b) = 0 \/ blue_count(b) = 0 THEN TRUE
    ELSE FALSE

\* get_winner crediting an emptied side with the win
get_winner_counts_swapped(b) ==
    IF 1 <= At(b, 4, 4) /\ At(b, 4, 4) <= 6 THEN -1
    ELSE IF 7 <= At(b, 0, 0) /\ At(b, 0, 0) <= 12 THEN 1
    ELSE IF red_count(b) = 0 THEN -1
    ELSE IF blue_count(b) = 0 THEN 1
    ELSE 0

get_winner(b) ==
    IF 1 <= At(b, 4, 4) /\ At(b, 4, 4) <= 6 THEN -1
    ELSE IF 7 <= At(b, 0, 0) /\ At(b, 0, 0) <= 12 THEN 1
    ELSE IF red_count(b) = 0 THEN 1
    ELSE IF blue_count(b) = 0 THEN -1
    ELSE 0

\* check_immediate_win returning the first legal move, winning or not
check_immediate_win_first_move(b, die, player) ==
    LET legal_moves == get_legal_moves(b, die, player)
    IN  IF legal_moves = <<>> THEN None ELSE legal_moves[1]

\* the first legal move whose board is finished with player as the winner
check_immediate_win(b, die, player) ==
    LET legal_moves == get_legal_moves(b, die, player)
        winning == SelectSeq(legal_moves,
                       LAMBDA m : LET new_board == make_move(b, m).new_board
                                  IN  /\ is_game_over(new_board)
                                      /\ get_winner(new_board) = player)
    IN  IF winning = <<>> THEN None ELSE winning[1]

\* the double loop of evaluate_position from cell number k on (cells in
\* row-major order, from 0): what the position values add to the score
RECURSIVE position_advantage(_, _, _)
position_advantage(b, player, k) ==
    IF k >= board_size * board_size
    THEN 0
    ELSE LET i == k \div board_size
             j == k % board_size
             piece == At(b, i, j)
             rest == position_advantage(b, player, k + 1)
         IN  IF 1 <= piece /\ piece <= 6
             THEN LET position_value == 10 - ((4 - i) + (4 - j))
                  IN  IF player = -1 THEN rest + position_value
                                     ELSE rest - position_value
             ELSE IF 7 <= piece /\ piece <= 12
             THEN LET position_value == 10 - (i + j)
                  IN  IF player = 1 THEN rest + position_value
                                    ELSE rest - position_value
             ELSE rest

\* evaluate_position scoring the piece counts only
evaluate_position_counts_only(b, player) ==
    IF player = 1
    THEN (blue_count(b) - red_count(b)) * 10
    ELSE (red_count(b) - blue_count(b)) * 10

\* the score is a float whose value is always an integer
evaluate_position(b, player) ==
    (IF player = 1
     THEN (blue_count(b) - red_count(b)) * 10
     ELSE (red_count(b) - blue_count(b)) * 10)
    + position_advantage(b, player, 0)

(***************************************************************************)
(* core/pmcts.py: the tree                                                 *)
(*                                                                         *)
(* A node is named by the move attributes on the way from the root to it   *)
(* (the root's move is None), which is how the code reaches it: through    *)
(* the children lists and the move_to_node dictionary.  A ProbabilityNode  *)
(* is named by <<its parent's name, its die>>.  wins holds twice the       *)
(* code's float (results are 0.0, 0.5, 1.0 and their negations), and       *)
(* probability holds six times the code's float (1.0, 0.0, 1/6).           *)
(***************************************************************************)
max_moves == 200

EmptyFcn == [x \in {} |-> 0]
RootId == <<None>>

ProbabilityNode(dice_value, probability) ==
    [dice_value |-> dice_value, probability |-> probability,
     children |-> <<>>, parent_mcts_node |-> None]

MCTSNode(b, player, mv, is_root) ==
    [board |-> b, player |-> player, move |-> mv, is_root |-> is_root,
     visits |-> 0, wins |-> 0,
     probability_children |-> <<>>, parent_prob_nodes |-> <<>>]

is_fully_expanded(node) == Len(node.probability_children) = 6

\* Python leaves the iteration order of a set open; an interpreter fixes one.
MoveKey(m) == ((m[1] * 5 + m[2]) * 5 + m[3]) * 5 + m[4]
RECURSIVE SetOrder(_, _)
SetOrder(S, order) ==
    IF S = {}
    THEN <<>>
    ELSE LET first == CHOOSE m \in S : \A k \in S :
                        IF order = "ascending" THEN MoveKey(m) <= MoveKey(k)
                                               ELSE MoveKey(m) >= MoveKey(k)
         IN  <<first>> \o SetOrder(S \ {first}, order)

\* step 3 of the expansion: one child node per unique move
RECURSIVE create_children(_, _, _)
create_children(self, moves, move_to_node) ==
    IF moves = <<>>
    THEN move_to_node
    ELSE LET mv == Head(moves)
             new_board == make_move(self.board, mv).new_board
             next_player == -self.player
             child_node == MCTSNode(new_board, next_player, mv, FALSE)
         IN  create_children(self, Tail(moves), (mv :> child_node) @@ move_to_node)

\* step 4 recording only the first ProbabilityNode a child is linked under
RECURSIVE parent_links_first_only(_, _, _, _)
parent_links_first_only(id, self, mv, dice_value) ==
    IF dice_value > 6
    THEN <<>>
    ELSE IF mv \in Range(get_legal_moves(self.board, dice_value, self.player))
         THEN << <<id, dice_value>> >>
         ELSE parent_links_first_only(id, self, mv, dice_value + 1)

\* step 4 recording the ProbabilityNode of every die as a parent of the child
parent_links_every_die(id, self, mv, dice_value) ==
    [d \in dice_value..6 |-> <<id, d>>]

\* step 4, seen from one child: the ProbabilityNodes appended to its parent list,
\* dice in increasing order, once per occurrence of the move in that die's list
RECURSIVE parent_links(_, _, _, _)
parent_links(id, self, mv, dice_value) ==
    IF dice_value > 6
    THEN <<>>
    ELSE LET legal_moves == get_legal_moves(self.board, dice_value, self.player)
             hits == SelectSeq(legal_moves, LAMBDA x : x = mv)
         IN  [i \in 1..Len(hits) |-> <<id, dice_value>>]
             \o parent_links(id, self, mv, dice_value + 1)

\* expansion whose children lists follow the order in which step 3 walked the set
expand_all_probability_nodes_set_order(nodes, id, current_die, order) ==
    LET self == nodes[id]
        all_possible_moves ==
            UNION {Range(get_legal_moves(self.board, d, self.player)) : d \in 1..6}
        walk == SetOrder(all_possible_moves, order)
        move_to_node == create_children(self, walk, EmptyFcn)
        prob_node(d) ==
            [ProbabilityNode(d, IF self.is_root /\ current_die # 0
                                THEN (IF d = current_die THEN 6 ELSE 0)
                                ELSE 1)
                EXCEPT !.parent_mcts_node = id,
                       !.children =
                           LET linked == SelectSeq(walk, LAMBDA mv :
                                   mv \in Range(get_legal_moves(self.board, d, self.player)))
                           IN  [i \in 1..Len(linked) |-> Append(id, linked[i])]]
        child(mv) ==
            [move_to_node[mv] EXCEPT !.parent_prob_nodes = parent_links(id, self, mv, 1)]
    IN  IF self.probability_children # <<>>
        THEN nodes
        ELSE [n \in {Append(id, mv) : mv \in all_possible_moves} |-> child(n[Len(n)])]
             @@ [nodes EXCEPT ![id].probability_children = [d \in 1..6 |-> prob_node(d)]]

\* current_die = 0 stands for None.  order is the interpreter's set order.
expand_all_probability_nodes(nodes, id, current_die, order) ==
    LET self == nodes[id]
        all_possible_moves ==
            UNION {Range(get_legal_moves(self.board, d, self.player)) : d \in 1..6}
        move_to_node ==
            create_children(self, SetOrder(all_possible_moves, order), EmptyFcn)
        prob_node(d) ==
            [ProbabilityNode(d, IF self.is_root /\ current_die # 0
                                THEN (IF d = current_die THEN 6 ELSE 0)
                                ELSE 1)
                EXCEPT !.parent_mcts_node = id,
                       !.children =
                           LET linked == SelectSeq(
                                   get_legal_moves(self.board, d, self.player),
                                   LAMBDA mv : mv \in DOMAIN move_to_node)
                           IN  [i \in 1..Len(linked) |-> Append(id, linked[i])]]
        child(mv) ==
            [move_to_node[mv] EXCEPT !.parent_prob_nodes = parent_links(id, self, mv, 1)]
    IN  IF self.probability_children # <<>>
        THEN nodes
        ELSE [n \in {Append(id, mv) : mv \in all_possible_moves} |-> child(n[Len(n)])]
             @@ [nodes EXCEPT ![id].probability_children = [d \in 1..6 |-> prob_node(d)]]

\* floor(10^6 * sqrt(2 * ln(N) / n)) for 1 <= n <= N <= 12
ExplorationTable ==
    << <<0>>,
       <<1177410, 832554>>,
       <<1482303, 1048147, 855808>>,
       <<1665109, 1177410, 961351, 832554>>,
       <<1794122, 1268636, 1035837, 897061, 802356>>,
       <<1893018, 1338566, 1092934, 946509, 846583, 772821>>,
       <<1972769, 1394958, 1138979, 986384, 882249, 805379, 745636>>,
       <<2039333, 1442026, 1177410, 1019666, 912017, 832554, 770795, 721013>>,
       <<2096294, 1482303, 1210295, 1048147, 937491, 855808, 792324, 741151, 698764>>,
       <<2145966, 1517427, 1238974, 1072983, 959705, 876086, 811098, 758713, 715322,
         678614>>,
       <<2189929, 1548513, 1264356, 1094964, 979366, 894034, 827715, 774256, 729976,
         692516, 660288>>,
       <<2229307, 1576358, 1287091, 1114653, 996976, 910111, 842599, 788179, 743102,
         704969, 672161, 643545>> >>

\* ucb_value(a) > ucb_value(b) for children a, b of a parent with N visits, where
\* ucb_value = wins / visits + sqrt(2 * ln(N) / visits).  The rational parts are
\* compared exactly; the square roots come from the table.
ucb_greater(a, b, N) ==
    (a.wins * b.visits - b.wins * a.visits) * 1000000
        > (ExplorationTable[N][b.visits] - ExplorationTable[N][a.visits])
              * 2 * a.visits * b.visits

\* the loop computing the UCB value of unvisited children too
RECURSIVE ucb_loop_unvisited_too(_, _, _, _, _)
ucb_loop_unvisited_too(nodes, self, children, i, best) ==
    IF i > Len(children)
    THEN best
    ELSE LET child == nodes[children[i]]
         IN  IF child.visits = 0 \/ self.visits <= 0 THEN -1
             ELSE IF best = 0 \/ ucb_greater(child, nodes[children[best]], self.visits)
                  THEN ucb_loop_unvisited_too(nodes, self, children, i + 1, i)
                  ELSE ucb_loop_unvisited_too(nodes, self, children, i + 1, best)

\* the loop replacing best_child also when the UCB values are equal
RECURSIVE ucb_loop_last_on_ties(_, _, _, _, _)
ucb_loop_last_on_ties(nodes, self, children, i, best) ==
    IF i > Len(children)
    THEN best
    ELSE LET child == nodes[children[i]]
         IN  IF child.visits = 0 THEN i
             ELSE IF self.visits <= 0 THEN -1
             ELSE IF best = 0 \/ ~ucb_greater(nodes[children[best]], child, self.visits)
                  THEN ucb_loop_last_on_ties(nodes, self, children, i + 1, i)
                  ELSE ucb_loop_last_on_ties(nodes, self, children, i + 1, best)

\* The for loop of select_best_move_child_ucb from child i on; best is the index of
\* best_child (0: none yet).  The result is the index of the returned child, or -1
\* when math.log or the division raises.
RECURSIVE ucb_loop(_, _, _, _, _)
ucb_loop(nodes, self, children, i, best) ==
    IF i > Len(children)
    THEN best
    ELSE LET child == nodes[children[i]]
         IN  IF child.visits = 0 THEN i
             ELSE IF self.visits <= 0 THEN -1
             ELSE IF best = 0 \/ ucb_greater(child, nodes[children[best]], self.visits)
                  THEN ucb_loop(nodes, self, children, i + 1, i)
                  ELSE ucb_loop(nodes, self, children, i + 1, best)

select_best_move_child_ucb(nodes, id, prob_node) ==
    IF prob_node.children = <<>>
    THEN 0
    ELSE ucb_loop(nodes, nodes[id], prob_node.children, 1, 0)

\* select_probability_child_random drawing any die, whatever the probabilities
select_probability_child_random_any(node) ==
    1..Len(node.probability_children)

\* the dice np.random.choice can return: those of non-zero probability; any die
\* (random.choice) when all probabilities are zero
select_probability_child_random(node) ==
    LET likely == {d \in 1..Len(node.probability_children) :
                       node.probability_children[d].probability > 0}
    IN  IF likely # {} THEN likely ELSE 1..Len(node.probability_children)

\* backpropagate updating the simulated node and forgetting its ancestors
backpropagate_self_only(nodes, id, result) ==
    [nodes EXCEPT ![id].visits = @ + 1, ![id].wins = @ + result]

\* backpropagate handing the result up without reversing it
RECURSIVE backpropagate_same_sign(_, _, _)
backpropagate_same_sign(nodes, id, result) ==
    LET self == nodes[id]
        updated == [nodes EXCEPT ![id].visits = @ + 1, ![id].wins = @ + result]
    IN  IF self.parent_prob_nodes # <<>>
        THEN LET ref == self.parent_prob_nodes[1]
                 prob_node == nodes[ref[1]].probability_children[ref[2]]
             IN  backpropagate_same_sign(updated, prob_node.parent_mcts_node, result)
        ELSE updated

RECURSIVE backpropagate(_, _, _)
backpropagate(nodes, id, result) ==
    LET self == nodes[id]
        updated == [nodes EXCEPT ![id].visits = @ + 1, ![id].wins = @ + result]
    IN  IF self.parent_prob_nodes # <<>>
        THEN LET ref == self.parent_prob_nodes[1]
                 prob_node == nodes[ref[1]].probability_children[ref[2]]
             IN  backpropagate(updated, prob_node.parent_mcts_node, -result)
        ELSE updated

\* max(children, key = visits) keeping the last maximum instead of the first
RECURSIVE max_visits_last(_, _, _, _)
max_visits_last(nodes, children, i, best) ==
    IF i > Len(children)
    THEN best
    ELSE IF nodes[children[i]].visits >= nodes[children[best]].visits
         THEN max_visits_last(nodes, children, i + 1, i)
         ELSE max_visits_last(nodes, children, i + 1, best)

_select_best_move_last(nodes, root, die) ==
    LET prob_node == nodes[root].probability_children[die]
    IN  IF die \notin DOMAIN nodes[root].probability_children THEN None
        ELSE IF prob_node.children = <<>> THEN None
        ELSE nodes[prob_node.children[
                 max_visits_last(nodes, prob_node.children, 2, 1)]].move

\* max(children, key = visits): the first child with the largest visits
RECURSIVE max_visits(_, _, _, _)
max_visits(nodes, children, i, best) ==
    IF i > Len(children)
    THEN best
    ELSE IF nodes[children[i]].visits > nodes[children[best]].visits
         THEN max_visits(nodes, children, i + 1, i)
         ELSE max_visits(nodes, children, i + 1, best)

_select_best_move(nodes, root, die) ==
    LET prob_node == nodes[root].probability_children[die]
    IN  IF die \notin DOMAIN nodes[root].probability_children THEN None
        ELSE IF prob_node.children = <<>> THEN None
        ELSE nodes[prob_node.children[max_visits(nodes, prob_node.children, 2, 1)]].move

_expand(nodes, id, order) ==
    IF ~is_fully_expanded(nodes[id])
    THEN expand_all_probability_nodes(nodes, id, 0, order)
    ELSE nodes

(***************************************************************************)
(* core/pmcts.py: PMCTS.search, cut at its random draws.                   *)
(* pc: "call" (search not entered yet), "select" (inside _select),         *)
(* "simulate" (inside simulate), "done" (returned best_move), "raised"     *)
(* (left by an exception).                                                 *)
(***************************************************************************)
MaxSim == 10

Idle == [pc |-> "idle"]

\* AIPlayer.time_limit of the player the search runs for, in clock ticks; the
\* clock is read in a unit so coarse that no iteration is over within a tick
time_limit == 3
ToolsIdle ==
    /\ tournament = Idle /\ opening = Idle /\ selection = Idle
    /\ exchange = Idle /\ evaluation = Idle

SearchCall(b, die, player, num_simulations, order) ==
    [pc |-> "call", board |-> b, die |-> die, player |-> player,
     num_simulations |-> num_simulations, set_order |-> order,
     nodes |-> EmptyFcn, simulation |-> 0, node |-> None,
     current_board |-> None, current_player |-> 0, moves_count |-> 0,
     best_move |-> None, raised |-> "", rng_used |-> FALSE,
     \* history: how many times simulate was called on each node
     rollouts |-> EmptyFcn,
     \* the player's time_limit, and the ticks gone by since search was entered
     time_limit |-> time_limit, elapsed |-> 0]

\* the head of the for loop: the next iteration starts at the root, or the loop is
\* over and the best move is returned
for_simulation(r) ==
    IF r.simulation < r.num_simulations
    THEN [r EXCEPT !.pc = "select", !.node = RootId]
    ELSE [r EXCEPT !.pc = "done", !.node = None,
                   !.best_move = _select_best_move(r.nodes, RootId, r.die)]

\* search without the shortcut for a single legal move
search_always_loops(r) ==
    LET legal_moves == get_legal_moves(r.board, r.die, r.player)
        root == MCTSNode(r.board, r.player, None, TRUE)
    IN  IF legal_moves = <<>>
        THEN [r EXCEPT !.pc = "done", !.best_move = None]
        ELSE for_simulation(
                 [r EXCEPT !.nodes = expand_all_probability_nodes(
                                         RootId :> root, RootId, r.die, r.set_order)])

\* search up to the loop
search(r) ==
    LET legal_moves == get_legal_moves(r.board, r.die, r.player)
        root == MCTSNode(r.board, r.player, None, TRUE)
    IN  IF legal_moves = <<>>
        THEN [r EXCEPT !.pc = "done", !.best_move = None]
        ELSE IF Len(legal_moves) = 1
        THEN [r EXCEPT !.pc = "done", !.best_move = legal_moves[1]]
        ELSE for_simulation(
                 [r EXCEPT !.nodes = expand_all_probability_nodes(
                                         RootId :> root, RootId, r.die, r.set_order)])

\* the while condition of _select
select_continues(r) ==
    /\ r.nodes[r.node].probability_children # <<>>
    /\ ~is_game_over(r.nodes[r.node].board)

\* the expansion followed by a step down to the first new child, from which the
\* rollout then starts
selected_steps_down(r) ==
    LET selected_node == r.nodes[r.node]
        expanded == IF ~is_game_over(selected_node.board)
                    THEN _expand(r.nodes, r.node, r.set_order)
                    ELSE r.nodes
        children == expanded[r.node].probability_children[1].children
        leaf == IF ~is_game_over(selected_node.board) /\ children # <<>>
                THEN children[1]
                ELSE r.node
    IN  [r EXCEPT !.nodes = expanded,
                  !.node = leaf,
                  !.pc = "simulate",
                  !.current_board = expanded[leaf].board,
                  !.current_player = expanded[leaf].player,
                  !.moves_count = 0]

\* _select has returned r.node: expand it, enter simulate
selected(r) ==
    LET selected_node == r.nodes[r.node]
    IN  [r EXCEPT !.nodes = IF ~is_game_over(selected_node.board)
                            THEN _expand(r.nodes, r.node, r.set_order)
                            ELSE r.nodes,
                  !.pc = "simulate",
                  !.current_board = selected_node.board,
                  !.current_player = selected_node.player,
                  !.moves_count = 0]

\* one round of the while loop of _select, the ProbabilityNode of die d drawn
select_step(r, d) ==
    LET prob_node == r.nodes[r.node].probability_children[d]
        next_node == select_best_move_child_ucb(r.nodes, r.node, prob_node)
        drawn == [r EXCEPT !.rng_used = TRUE]
    IN  IF prob_node.children = <<>> \/ next_node = 0
        THEN selected(drawn)
        ELSE IF next_node = -1
        THEN [drawn EXCEPT !.pc = "raised", !.raised = "ValueError"]
        ELSE [drawn EXCEPT !.node = prob_node.children[next_node]]

\* the while condition of simulate
simulate_continues(r) ==
    /\ ~is_game_over(r.current_board)
    /\ r.moves_count < max_moves

\* simulate returning 1.0 for a win of the node's own player and 0.0 for a
\* win of the opponent, as its docstring has it
simulate_result_as_documented(self, current_board) ==
    LET winner == get_winner(current_board)
    IN  IF winner = self.player THEN 2
        ELSE IF winner = -self.player THEN 0
        ELSE 1

\* what simulate returns for the board its loop ended on, in half points
simulate_result(self, current_board) ==
    LET winner == get_winner(current_board)
    IN  IF winner = self.player THEN 0
        ELSE IF winner = -self.player THEN 2
        ELSE 1

\* simulate has left its loop: the result, backpropagate, the progress output
simulated(r) ==
    LET self == r.nodes[r.node]
        result == simulate_result(self, r.current_board)
        calls == IF r.node \in DOMAIN r.rollouts THEN r.rollouts[r.node] ELSE 0
        after == [r EXCEPT !.nodes = backpropagate(r.nodes, r.node, result),
                           !.rollouts = (r.node :> (calls + 1)) @@ r.rollouts,
                           !.elapsed = @ + 1,
                           !.current_board = None,
                           !.current_player = 0,
                           !.moves_count = 0]
    IN  IF r.num_simulations \div 10 = 0
        THEN [after EXCEPT !.pc = "raised", !.raised = "ZeroDivisionError"]
        ELSE for_simulation([after EXCEPT !.simulation = @ + 1])

\* one round of the while loop of simulate: die rolled, the k-th legal move chosen
simulate_step(r, die, k) ==
    LET legal_moves == get_legal_moves(r.current_board, die, r.current_player)
        drawn == [r EXCEPT !.rng_used = TRUE]
    IN  IF legal_moves = <<>>
        THEN simulated(drawn)
        ELSE [drawn EXCEPT
                 !.current_board = make_move(r.current_board, legal_moves[k]).new_board,
                 !.current_player = -r.current_player,
                 !.moves_count = @ + 1]

(***************************************************************************)
(* The positions search is called on.                                      *)
(***************************************************************************)
SearchBoards ==
    { BoardOf({<<3, 3, 3>>, <<5, 4, 3>>, <<8, 1, 0>>}),
      BoardOf({<<2, 3, 2>>, <<5, 2, 4>>, <<8, 0, 1>>, <<11, 1, 0>>}),
      \* a finished game: Red stands on (4,4)
      BoardOf({<<3, 4, 4>>, <<8, 1, 1>>, <<11, 2, 2>>}) }

SearchInit ==
    /\ \E b \in SearchBoards, die \in Dice, player \in Players,
          num_simulations \in 0..MaxSim :
          /\ run = SearchCall(b, die, player, num_simulations, "ascending")
          /\ twin = SearchCall(b, die, player, num_simulations, "descending")
          /\ board = b
    /\ prev_board = board
    /\ prev_after = board
    /\ move = None
    /\ battle = Idle
    /\ harness = Idle
    /\ workers = Idle
    /\ ToolsIdle
    /\ rollout = Idle
    /\ gui = Idle

Search ==
    /\ run.pc = "call"
    /\ run' = search(run)
    /\ twin' = search(twin)
    /\ UNCHANGED <<rule_vars, battle_vars, tool_vars, rollout, gui>>

Select ==
    /\ run.pc = "select"
    /\ select_continues(run)
    /\ \E d \in select_probability_child_random(run.nodes[run.node]) :
          /\ run' = select_step(run, d)
          /\ twin' = select_step(twin, d)
    /\ UNCHANGED <<rule_vars, battle_vars, tool_vars, rollout, gui>>

Selected ==
    /\ run.pc = "select"
    /\ ~select_continues(run)
    /\ run' = selected(run)
    /\ twin' = selected(twin)
    /\ UNCHANGED <<rule_vars, battle_vars, tool_vars, rollout, gui>>

Simulate ==
    /\ run.pc = "simulate"
    /\ simulate_continues(run)
    /\ \E die \in Dice :
          LET legal_moves == get_legal_moves(run.current_board, die, run.current_player)
          IN  \E k \in 1..(IF legal_moves = <<>> THEN 1 ELSE Len(legal_moves)) :
                 /\ run' = simulate_step(run, die, k)
                 /\ twin' = simulate_step(twin, die, k)
    /\ UNCHANGED <<rule_vars, battle_vars, tool_vars, rollout, gui>>

Simulated ==
    /\ run.pc = "simulate"
    /\ ~simulate_continues(run)
    /\ run' = simulated(run)
    /\ twin' = simulated(twin)
    /\ UNCHANGED <<rule_vars, battle_vars, tool_vars, rollout, gui>>

SearchNext == Search \/ Select \/ Selected \/ Simulate \/ Simulated

SpecSearch == SearchInit /\ [][SearchNext]_vars

(***************************************************************************)
(* ai_battle.py: AIBattleSystem.single_battle.  Times are left out.  The   *)
(* record holds the arguments and the locals; pc is "loop" (at the while   *)
(* condition), "returned" (a GameResult was returned) or "raised" (left by *)
(* an exception of search).                                                *)
(***************************************************************************)
MaxPly == 3

\* What PMCTS.search(board, die, player, num_simulations) can end with: the value it
\* returns, or the exception of its progress output.
search_results(b, die, player, num_simulations) ==
    LET legal_moves == get_legal_moves(b, die, player)
    IN  IF legal_moves = <<>>
        THEN {[raised |-> FALSE, best_move |-> None]}
        ELSE IF Len(legal_moves) = 1
        THEN {[raised |-> FALSE, best_move |-> legal_moves[1]]}
        ELSE IF num_simulations <= 0
        THEN {[raised |-> FALSE,
               best_move |-> IF die \in Dice THEN legal_moves[1] ELSE None]}
        ELSE IF num_simulations \div 10 = 0
        THEN {[raised |-> TRUE, best_move |-> None]}
        ELSE IF die \notin Dice
        \* the root has no ProbabilityNode for such a die: _select_best_move gives None
        THEN {[raised |-> FALSE, best_move |-> None]}
        ELSE {[raised |-> FALSE, best_move |-> legal_moves[i]] : i \in 1..Len(legal_moves)}

\* _generate_default_board numbering the shuffled tokens from 1
_generate_default_board_from_one(empty_positions) ==
    BoardOf({<<12, 0, 4>>, <<11, 1, 3>>, <<10, 2, 2>>, <<9, 2, 3>>, <<8, 2, 4>>,
             <<7, 3, 1>>, <<1, 4, 0>>}
            \cup {<<i, empty_positions[i][1], empty_positions[i][2]>> : i \in 1..5})

\* empty_positions is the list after random.shuffle; its first five cells are used.
_generate_default_board(empty_positions) ==
    BoardOf({<<12, 0, 4>>, <<11, 1, 3>>, <<10, 2, 2>>, <<9, 2, 3>>, <<8, 2, 4>>,
             <<7, 3, 1>>, <<1, 4, 0>>}
            \cup {<<i + 1, empty_positions[i][1], empty_positions[i][2]>> : i \in 1..5})

GameResult(winner, total_moves, final_board, move_history, board_states) ==
    [winner |-> winner, total_moves |-> total_moves, final_board |-> final_board,
     move_history |-> move_history, board_states |-> board_states]

\* single_battle up to its loop
single_battle(blue_ai, red_ai, initial_board, cap, empty_positions) ==
    LET start == IF initial_board # None
                 THEN initial_board
                 ELSE _generate_default_board(empty_positions)
    IN  [pc |-> "loop", blue_ai |-> blue_ai, red_ai |-> red_ai,
         initial_board |-> initial_board, empty_positions |-> empty_positions,
         max_moves |-> cap,
         board |-> start, current_player |-> 1, move_count |-> 0,
         move_history |-> <<>>, board_states |-> <<start>>,
         result |-> None, training_samples |-> <<>>]

\* the while condition of single_battle
battle_continues(g) ==
    /\ ~is_game_over(g.board)
    /\ g.move_count < g.max_moves

\* the loop body treating every search result as "no move found"
single_battle_turn_always_passes(g, die, outcome) ==
    LET legal_moves == get_legal_moves(g.board, die, g.current_player)
    IN  IF legal_moves = <<>>
        THEN [g EXCEPT !.current_player = -g.current_player]
        ELSE IF outcome.raised
        THEN [g EXCEPT !.pc = "raised"]
        ELSE [g EXCEPT !.current_player = -g.current_player]

\* the loop body taking its snapshot before the move is applied
single_battle_turn_stale_snapshot(g, die, outcome) ==
    LET legal_moves == get_legal_moves(g.board, die, g.current_player)
        best_move == outcome.best_move
    IN  IF legal_moves = <<>>
        THEN [g EXCEPT !.current_player = -g.current_player]
        ELSE IF outcome.raised
        THEN [g EXCEPT !.pc = "raised"]
        ELSE IF best_move = None
        THEN [g EXCEPT !.current_player = -g.current_player]
        ELSE [g EXCEPT
                 !.board = make_move(g.board, best_move).new_board,
                 !.move_count = @ + 1,
                 !.move_history = Append(@, best_move \o <<g.current_player, die>>),
                 !.board_states = Append(@, g.board),
                 !.current_player = -g.current_player]

\* one round of the loop: die rolled, outcome is what the searcher's search ended with
single_battle_turn(g, die, outcome) ==
    LET legal_moves == get_legal_moves(g.board, die, g.current_player)
        best_move == outcome.best_move
    IN  IF legal_moves = <<>>
        THEN [g EXCEPT !.current_player = -g.current_player]
        ELSE IF outcome.raised
        THEN [g EXCEPT !.pc = "raised"]
        ELSE IF best_move = None
        THEN [g EXCEPT !.current_player = -g.current_player]
        ELSE [g EXCEPT
                 !.board = make_move(g.board, best_move).new_board,
                 !.move_count = @ + 1,
                 !.move_history = Append(@, best_move \o <<g.current_player, die>>),
                 !.board_states = Append(@, make_move(g.board, best_move).new_board),
                 !.current_player = -g.current_player]

\* the result naming a draw whenever the move count reached max_moves
single_battle_result_cap_is_draw(g) ==
    [g EXCEPT !.pc = "returned",
              !.result = GameResult(IF g.move_count >= g.max_moves
                                    THEN 0 ELSE get_winner(g.board),
                                    g.move_count, g.board,
                                    g.move_history, g.board_states)]

\* after the loop: the GameResult
single_battle_result(g) ==
    [g EXCEPT !.pc = "returned",
              !.result = GameResult(get_winner(g.board), g.move_count, g.board,
                                    g.move_history, g.board_states)]

\* _extract_training_data taking its samples from every snapshot, the last included
_extract_training_data_all_snapshots(result) ==
    [k \in 1..Len(result.board_states) |->
        LET i == k - 1
            current_player == IF i < Len(result.move_history)
                              THEN result.move_history[i + 1][5]
                              ELSE 1
            value == IF result.winner = current_player
                     THEN 1
                     ELSE IF result.winner = -current_player THEN -1 ELSE 0
        IN  [board_state |-> result.board_states[k], current_player |-> current_player,
             value |-> value, game_length |-> result.total_moves, move_index |-> i]]

\* _extract_training_data: the list of samples; value holds the code's float
\* (1.0, -1.0, 0.0) as an integer
_extract_training_data(result) ==
    [k \in 1..(Len(result.board_states) - 1) |->
        LET i == k - 1
            current_player == IF i < Len(result.move_history)
                              THEN result.move_history[i + 1][5]
                              ELSE 1
            value == IF result.winner = current_player
                     THEN 1
                     ELSE IF result.winner = -current_player THEN -1 ELSE 0
        IN  [board_state |-> result.board_states[k], current_player |-> current_player,
             value |-> value, game_length |-> result.total_moves, move_index |-> i]]

\* collect_training_data handing a returned GameResult to _extract_training_data
extract(g) ==
    [g EXCEPT !.pc = "extracted", !.training_samples = _extract_training_data(g.result)]

\* the simulation_count of the two AIPlayer configurations
SimulationCounts == {0, 5, 10}

BattleBoards ==
    { BoardOf({<<3, 3, 3>>, <<5, 4, 3>>, <<8, 1, 0>>, <<11, 1, 1>>}),
      \* each side has one token on the edge, far from its goal
      BoardOf({<<2, 0, 4>>, <<9, 4, 0>>}) }

\* outcomes of random.shuffle(empty_positions), cut after the cells that are used
Shuffles ==
    { << <<4, 1>>, <<3, 0>>, <<4, 2>>, <<3, 2>>, <<4, 3>> >>,
      << <<4, 4>>, <<0, 0>>, <<1, 1>>, <<3, 3>>, <<0, 1>> >> }

BattleInit ==
    /\ \E blue_ai \in SimulationCounts, red_ai \in SimulationCounts :
          \/ \E initial_board \in BattleBoards, cap \in 0..MaxPly :
                 battle = single_battle(blue_ai, red_ai, initial_board, cap, <<>>)
          \/ \E empty_positions \in Shuffles, cap \in 0..1 :
                 battle = single_battle(blue_ai, red_ai, None, cap, empty_positions)
    /\ board = battle.board
    /\ prev_board = board
    /\ prev_after = board
    /\ move = None
    /\ run = Idle
    /\ twin = Idle
    /\ harness = Idle
    /\ workers = Idle
    /\ ToolsIdle
    /\ rollout = Idle
    /\ gui = Idle

BattleTurn ==
    /\ battle.pc = "loop"
    /\ battle_continues(battle)
    /\ \E die \in Dice :
          \E outcome \in search_results(
                  battle.board, die, battle.current_player,
                  IF battle.current_player = 1 THEN battle.blue_ai ELSE battle.red_ai) :
              battle' = single_battle_turn(battle, die, outcome)
    /\ UNCHANGED <<rule_vars, search_vars, harness, workers, tool_vars, rollout, gui>>

BattleReturn ==
    /\ battle.pc = "loop"
    /\ ~battle_continues(battle)
    /\ battle' = single_battle_result(battle)
    /\ UNCHANGED <<rule_vars, search_vars, harness, workers, tool_vars, rollout, gui>>

BattleExtract ==
    /\ battle.pc = "returned"
    /\ battle' = extract(battle)
    /\ UNCHANGED <<rule_vars, search_vars, harness, workers, tool_vars, rollout, gui>>

BattleNext == BattleTurn \/ BattleReturn \/ BattleExtract

\* The loop is a sequential program: it keeps running while it can.  A step of
\* BattleNext is possible exactly while pc is "loop" (a round always changes the
\* record, and so does the return), so this is weak fairness of BattleNext with its
\* enabling condition written out.
BattleFairness == []<>(battle.pc # "loop") \/ []<><<BattleNext>>_vars

SpecBattle == BattleInit /\ [][BattleNext]_vars /\ BattleFairness

(***************************************************************************)
(* ai_battle.py: AIBattleSystem.batch_battle, called again and again on    *)
(* one AIBattleSystem.  A game is cut down to how its single_battle call   *)
(* ends: with an exception, or with a GameResult of which the winner and   *)
(* total_moves are kept.  average_game_length is the pair                  *)
(* <<numerator, denominator>>; thinking times are left out.                *)
(***************************************************************************)
MaxGames == 2
MaxCalls == 2

\* AIBattleSystem.__init__, no batch_battle call made yet
AIBattleSystem ==
    [pc |-> "new", calls |-> 0,
     battle_results |-> <<>>,
     statistics |-> [total_games |-> 0, blue_wins |-> 0, red_wins |-> 0, draws |-> 0,
                     average_game_length |-> <<0, 1>>],
     num_games |-> 0, parallel |-> FALSE, game_idx |-> 0,
     results |-> <<>>, outcomes |-> <<>>, progress |-> <<>>,
     returned |-> None, raised |-> ""]

\* how a single_battle call of a batch ends: search raised on the way, Red stood on
\* (4,4) in the opening, Blue won, or max_moves (200) ran out
GameOutcomes ==
    { [raised |-> TRUE, result |-> None],
      [raised |-> FALSE, result |-> [winner |-> -1, total_moves |-> 0]],
      [raised |-> FALSE, result |-> [winner |-> 1, total_moves |-> 3]],
      [raised |-> FALSE, result |-> [winner |-> 0, total_moves |-> 200]] }

RECURSIVE count_winner(_, _)
count_winner(results, winner) ==
    IF results = <<>>
    THEN 0
    ELSE (IF Head(results).winner = winner THEN 1 ELSE 0)
         + count_winner(Tail(results), winner)

RECURSIVE sum_total_moves(_)
sum_total_moves(results) ==
    IF results = <<>>
    THEN 0
    ELSE Head(results).total_moves + sum_total_moves(Tail(results))

\* _update_statistics: the statistics it leaves, and whether its division raised
_update_statistics(statistics, results) ==
    LET counted ==
            [statistics EXCEPT
                !.total_games = @ + Len(results),
                !.blue_wins = @ + count_winner(results, 1),
                !.red_wins = @ + count_winner(results, -1),
                !.draws = @ + Len(results) - count_winner(results, 1)
                            - count_winner(results, -1)]
    IN  IF counted.total_games > 0
        THEN IF Len(results) = 0
             THEN [raised |-> TRUE, statistics |-> counted]
             ELSE [raised |-> FALSE,
                   statistics |-> [counted EXCEPT !.average_game_length =
                                       <<sum_total_moves(results), Len(results)>>]]
        ELSE [raised |-> FALSE, statistics |-> counted]

\* batch_battle up to its loop over the games
batch_battle(h, num_games, parallel) ==
    [h EXCEPT !.pc = "games", !.calls = @ + 1,
              !.num_games = num_games, !.parallel = parallel, !.game_idx = 0,
              !.results = <<>>, !.outcomes = <<>>, !.progress = <<>>,
              !.returned = None, !.raised = ""]

\* one game is over and collected: future.result() in a worker pool, the call of
\* single_battle otherwise; an exception is printed and the game left out.
\* progress is the first argument of each progress_callback call, in call order:
\* len(results) in the pool branch, game_idx + 1 in the serial one.
batch_battle_game(h, outcome) ==
    LET results == IF outcome.raised THEN h.results ELSE Append(h.results, outcome.result)
        completed == IF h.parallel /\ h.num_games > 1
                     THEN Len(results)
                     ELSE h.game_idx + 1
    IN  [h EXCEPT !.game_idx = @ + 1,
                  !.outcomes = Append(@, outcome),
                  !.results = results,
                  !.progress = IF outcome.raised THEN @ ELSE Append(@, completed)]

\* after the loop: keep the results, update the statistics, return
batch_battle_end(h) ==
    LET updated == _update_statistics(h.statistics, h.results)
        kept == [h EXCEPT !.battle_results = @ \o h.results,
                          !.statistics = updated.statistics]
    IN  IF updated.raised
        THEN [kept EXCEPT !.pc = "raised", !.raised = "ZeroDivisionError"]
        ELSE [kept EXCEPT !.pc = "returned", !.returned = h.results]

BatchInit ==
    /\ harness = AIBattleSystem
    /\ board = BoardOf({})
    /\ prev_board = board
    /\ prev_after = board
    /\ move = None
    /\ run = Idle
    /\ twin = Idle
    /\ battle = Idle
    /\ workers = Idle
    /\ ToolsIdle
    /\ rollout = Idle
    /\ gui = Idle

BatchCall ==
    /\ harness.pc \in {"new", "returned", "raised"}
    /\ harness.calls < MaxCalls
    /\ \E num_games \in 1..MaxGames, parallel \in BOOLEAN :
          harness' = batch_battle(harness, num_games, parallel)
    /\ UNCHANGED <<rule_vars, search_vars, battle, workers, tool_vars, rollout, gui>>

BatchGame ==
    /\ harness.pc = "games"
    /\ harness.game_idx < harness.num_games
    /\ \E outcome \in GameOutcomes :
          harness' = batch_battle_game(harness, outcome)
    /\ UNCHANGED <<rule_vars, search_vars, battle, workers, tool_vars, rollout, gui>>

BatchEnd ==
    /\ harness.pc = "games"
    /\ harness.game_idx >= harness.num_games
    /\ harness' = batch_battle_end(harness)
    /\ UNCHANGED <<rule_vars, search_vars, battle, workers, tool_vars, rollout, gui>>

BatchNext == BatchCall \/ BatchGame \/ BatchEnd

SpecBatch == BatchInit /\ [][BatchNext]_vars

(***************************************************************************)
(* ai_battle.py: the games of a parallel batch_battle.  The pool's threads *)
(* all run self.single_battle, and every die is drawn with random.randint, *)
(* that is from the one generator of the random module, which the program  *)
(* never seeds.  The generator is a small congruential one here: a state,  *)
(* the number drawn from it, the state after the draw.  The same batch is  *)
(* followed under two schedules of its threads, left and right.            *)
(***************************************************************************)
NumWorkers == 2
MaxDraws == 2
Seeds == {1, 7}

randint(state) == (state % 6) + 1
random_advance(state) == (state * 5 + 3) % 16

\* the games submitted to the pool: the generator they all use and, per game, the
\* dice it has rolled so far
submitted(seed) ==
    [rng |-> seed, dice |-> [game_idx \in 1..NumWorkers |-> <<>>]]

\* game game_idx rolls its next die
roll(w, game_idx) ==
    [w EXCEPT !.dice[game_idx] = Append(@, randint(w.rng)),
              !.rng = random_advance(w.rng)]

ParallelInit ==
    /\ \E seed \in Seeds :
          workers = [left |-> submitted(seed), right |-> submitted(seed)]
    /\ board = BoardOf({})
    /\ prev_board = board
    /\ prev_after = board
    /\ move = None
    /\ run = Idle
    /\ twin = Idle
    /\ battle = Idle
    /\ harness = Idle
    /\ ToolsIdle
    /\ rollout = Idle
    /\ gui = Idle

RollLeft ==
    /\ \E game_idx \in 1..NumWorkers :
          /\ Len(workers.left.dice[game_idx]) < MaxDraws
          /\ workers' = [workers EXCEPT !.left = roll(@, game_idx)]
    /\ UNCHANGED <<rule_vars, search_vars, battle, harness, tool_vars, rollout, gui>>

RollRight ==
    /\ \E game_idx \in 1..NumWorkers :
          /\ Len(workers.right.dice[game_idx]) < MaxDraws
          /\ workers' = [workers EXCEPT !.right = roll(@, game_idx)]
    /\ UNCHANGED <<rule_vars, search_vars, battle, harness, tool_vars, rollout, gui>>

ParallelNext == RollLeft \/ RollRight

SpecParallel == ParallelInit /\ [][ParallelNext]_vars

(***************************************************************************)
(* ai_battle.py: AIBattleSystem.tournament on a fresh AIBattleSystem.  An  *)
(* AI configuration is cut down to its name.  A match is one batch_battle  *)
(* call, cut down to the tally of the results it returns,                  *)
(* <<games won by Blue, games won by Red, drawn games>>, or to the         *)
(* exception it ends in.  pc: "pairs" (in the double loop), "returned",    *)
(* "raised".                                                               *)
(***************************************************************************)
games_per_match == 10

\* the ai_configs a tournament is called with
Rosters == { <<"A", "B">>, <<"A", "B", "C">>, <<"A", "A", "B">> }

\* what the games of one match can add up to; a failed game is left out of
\* the results, so a tally may hold fewer games than were asked for
Tallies ==
    { t \in { <<6, 4, 0>>, <<4, 6, 0>>, <<7, 3, 0>>, <<5, 5, 0>>, <<0, 0, 1>>, <<0, 0, 0>> } :
          t[1] + t[2] + t[3] <= games_per_match }

\* tournament up to its double loop; i and j are the loop indices, calls the
\* batch_battle calls made so far, total_games is statistics['total_games']
tournament_call(ai_configs) ==
    [pc |-> "pairs", ai_configs |-> ai_configs, games_per_match |-> games_per_match,
     i |-> 0, j |-> 0, calls |-> <<>>, match_results |-> <<>>, total_games |-> 0,
     ai_scores |-> EmptyFcn, final_ranking |-> <<>>, raised |-> ""]

\* the next (i, j) of "for i ...: for j ...:"
next_pair(t) ==
    IF t.j + 1 < Len(t.ai_configs)
    THEN [t EXCEPT !.j = @ + 1]
    ELSE [t EXCEPT !.i = @ + 1, !.j = 0]

\* one pass of the inner loop body for a pair that is played: the two AIPlayer
\* objects, the batch_battle call and the match_result appended.  batch_battle
\* raises in _update_statistics when it collected no result on an
\* AIBattleSystem that has results of earlier calls.
tournament_match(t, tally) ==
    LET ai1 == t.ai_configs[t.i + 1]
        ai2 == t.ai_configs[t.j + 1]
        blue_ai == [name |-> ai1, player_id |-> 1]
        red_ai == [name |-> ai2, player_id |-> -1]
        call == [i |-> t.i, j |-> t.j, blue_ai |-> blue_ai, red_ai |-> red_ai,
                 num_games |-> t.games_per_match, parallel |-> TRUE]
        total == tally[1] + tally[2] + tally[3]
        match_result == [ai1 |-> ai1, ai2 |-> ai2,
                         ai1_wins |-> tally[1], ai2_wins |-> tally[2],
                         draws |-> tally[3], total_games |-> total]
        called == [t EXCEPT !.calls = Append(@, call), !.total_games = @ + total]
    IN  IF called.total_games > 0 /\ total = 0
        THEN [called EXCEPT !.pc = "raised", !.raised = "ZeroDivisionError"]
        ELSE next_pair([called EXCEPT !.match_results = Append(@, match_result)])

\* the names in the order in which the dictionary ai_scores holds them
RECURSIVE dict_keys(_)
dict_keys(names) ==
    IF names = <<>>
    THEN <<>>
    ELSE LET rest == dict_keys(SubSeq(names, 1, Len(names) - 1))
             last == names[Len(names)]
         IN  IF last \in Range(rest) THEN rest ELSE Append(rest, last)

score_match_tie_is_win(ai_scores, match) ==
    IF match.ai1_wins >= match.ai2_wins
    THEN [ai_scores EXCEPT ![match.ai1] = @ + 3]
    ELSE [ai_scores EXCEPT ![match.ai2] = @ + 3]

\* the body of "for match in match_results"
score_match(ai_scores, match) ==
    IF match.ai1_wins > match.ai2_wins
    THEN [ai_scores EXCEPT ![match.ai1] = @ + 3]
    ELSE IF match.ai2_wins > match.ai1_wins
         THEN [ai_scores EXCEPT ![match.ai2] = @ + 3]
         ELSE LET first == [ai_scores EXCEPT ![match.ai1] = @ + 1]
              IN  [first EXCEPT ![match.ai2] = @ + 1]

RECURSIVE score_matches(_, _)
score_matches(ai_scores, match_results) ==
    IF match_results = <<>>
    THEN ai_scores
    ELSE score_matches(score_match(ai_scores, Head(match_results)), Tail(match_results))

\* sorted(items, key=lambda x: x[1], reverse=True): by falling score, items of
\* equal score in the order they came in
RECURSIVE sorted_reverse(_)
sorted_reverse(items) ==
    IF items = <<>>
    THEN <<>>
    ELSE LET rest == sorted_reverse(SubSeq(items, 1, Len(items) - 1))
             last == items[Len(items)]
             ahead == {k \in DOMAIN rest : rest[k][2] >= last[2]}
             n == Cardinality(ahead)
         IN  SubSeq(rest, 1, n) \o <<last>> \o SubSeq(rest, n + 1, Len(rest))

\* after the double loop: the scores, the ranking, the returned dictionary
tournament_end(t) ==
    LET names == dict_keys(t.ai_configs)
        ai_scores == score_matches([name \in Range(names) |-> 0], t.match_results)
        items == [k \in DOMAIN names |-> <<names[k], ai_scores[names[k]]>>]
    IN  [t EXCEPT !.pc = "returned", !.ai_scores = ai_scores,
                  !.final_ranking = sorted_reverse(items)]

TournamentInit ==
    /\ \E ai_configs \in Rosters : tournament = tournament_call(ai_configs)
    /\ board = BoardOf({})
    /\ prev_board = board
    /\ prev_after = board
    /\ move = None
    /\ run = Idle
    /\ twin = Idle
    /\ battle = Idle
    /\ harness = Idle
    /\ workers = Idle
    /\ rollout = Idle
    /\ gui = Idle
    /\ opening = Idle
    /\ selection = Idle
    /\ exchange = Idle
    /\ evaluation = Idle

\* "if i >= j: continue"
TournamentSkip ==
    /\ tournament.pc = "pairs"
    /\ tournament.i < Len(tournament.ai_configs)
    /\ tournament.i >= tournament.j
    /\ tournament' = next_pair(tournament)
    /\ UNCHANGED <<rule_vars, search_vars, battle_vars, rollout, gui, opening, selection, exchange, evaluation>>

TournamentMatch ==
    /\ tournament.pc = "pairs"
    /\ tournament.i < Len(tournament.ai_configs)
    /\ tournament.i < tournament.j
    /\ \E tally \in Tallies : tournament' = tournament_match(tournament, tally)
    /\ UNCHANGED <<rule_vars, search_vars, battle_vars, rollout, gui, opening, selection, exchange, evaluation>>

TournamentEnd ==
    /\ tournament.pc = "pairs"
    /\ tournament.i >= Len(tournament.ai_configs)
    /\ tournament' = tournament_end(tournament)
    /\ UNCHANGED <<rule_vars, search_vars, battle_vars, rollout, gui, opening, selection, exchange, evaluation>>

TournamentNext == TournamentSkip \/ TournamentMatch \/ TournamentEnd

SpecTournament == TournamentInit /\ [][TournamentNext]_vars

(***************************************************************************)
(* ai_battle.py: AIBattleSystem._generate_default_board, split at          *)
(* random.shuffle.  pc: "shuffled" (empty_positions is in the order the    *)
(* shuffle left), "placed" (the board was returned).                       *)
(***************************************************************************)
MaxShuffled == 6

\* the array literal the board starts from
fixed_layout ==
    BoardOf({<<12, 0, 4>>, <<11, 1, 3>>, <<10, 2, 2>>, <<9, 2, 3>>, <<8, 2, 4>>,
             <<7, 3, 1>>, <<1, 4, 0>>})

\* [(i, j) for i in range(5) for j in range(5) if board[i, j] == 0]
RECURSIVE cells_from(_)
cells_from(k) ==
    IF k >= board_size * board_size
    THEN <<>>
    ELSE LET i == k \div board_size
             j == k % board_size
         IN  (IF At(fixed_layout, i, j) = 0 THEN << <<i, j>> >> ELSE <<>>)
             \o cells_from(k + 1)

empty_cells == cells_from(0)

\* what random.shuffle can leave in the first five places of empty_positions,
\* as far as only the last MaxShuffled cells of the list get there
ShuffledPrefixes ==
    LET n == Len(empty_cells)
        late == {empty_cells[k] : k \in (n - MaxShuffled + 1)..n}
    IN  {p \in [1..5 -> late] : \A a, b \in 1..5 : p[a] = p[b] => a = b}

OpeningInit ==
    /\ \E empty_positions \in ShuffledPrefixes :
          opening = [pc |-> "shuffled", empty_positions |-> empty_positions,
                     board |-> None]
    /\ board = BoardOf({})
    /\ prev_board = board
    /\ prev_after = board
    /\ move = None
    /\ run = Idle
    /\ twin = Idle
    /\ battle = Idle
    /\ harness = Idle
    /\ workers = Idle
    /\ rollout = Idle
    /\ gui = Idle
    /\ tournament = Idle
    /\ selection = Idle
    /\ exchange = Idle
    /\ evaluation = Idle

\* the loop over remaining_pieces and the return
Place ==
    /\ opening.pc = "shuffled"
    /\ opening' = [opening EXCEPT !.pc = "placed",
                                  !.board = _generate_default_board(opening.empty_positions)]
    /\ UNCHANGED <<rule_vars, search_vars, battle_vars, rollout, gui, tournament, selection, exchange, evaluation>>

OpeningNext == Place

SpecOpening == OpeningInit /\ [][OpeningNext]_vars

(***************************************************************************)
(* core/pmcts.py: one select_best_move_child_ucb call made during the      *)
(* search of a PMCTS object.  The object holds exploration_constant; the   *)
(* call is made on a node (0) for a ProbabilityNode with two children (1   *)
(* and 2), of which only the statistics matter.  wins is in half points.   *)
(* pc: "call", "returned".                                                 *)
(***************************************************************************)
MaxVisits == 4

ExplorationConstants == {0, 1, 2}

\* the statistics backpropagation can leave on a node visited n times: every
\* visit adds 1.0, 0.5, 0.0, -0.5 or -1.0 to wins
Statistics(n) == [visits : {n}, wins : (-2 * n)..(2 * n)]

\* PMCTS(game, exploration_constant), and the tree its search has built
PMCTS(exploration_constant, self, first, second) ==
    [pc |-> "call", exploration_constant |-> exploration_constant,
     nodes |-> [id \in 0..2 |-> IF id = 0 THEN self ELSE IF id = 1 THEN first ELSE second],
     prob_node |-> [children |-> <<1, 2>>],
     best_child |-> 0]

SelectionInit ==
    /\ \E exploration_constant \in ExplorationConstants, N \in 1..MaxVisits :
          \E n1 \in 0..N, n2 \in 0..N :
              /\ n1 + n2 <= N
              /\ \E self \in Statistics(N), first \in Statistics(n1),
                    second \in Statistics(n2) :
                     selection = PMCTS(exploration_constant, self, first, second)
    /\ board = BoardOf({})
    /\ prev_board = board
    /\ prev_after = board
    /\ move = None
    /\ run = Idle
    /\ twin = Idle
    /\ battle = Idle
    /\ harness = Idle
    /\ workers = Idle
    /\ rollout = Idle
    /\ gui = Idle
    /\ tournament = Idle
    /\ opening = Idle
    /\ exchange = Idle
    /\ evaluation = Idle

\* node.select_best_move_child_ucb(prob_node) in _select
SelectChild ==
    /\ selection.pc = "call"
    /\ selection' = [selection EXCEPT
                        !.pc = "returned",
                        !.best_child = select_best_move_child_ucb(
                                           selection.nodes, 0, selection.prob_node)]
    /\ UNCHANGED <<rule_vars, search_vars, battle_vars, rollout, gui, tournament, opening, exchange, evaluation>>

SelectionNext == SelectChild

SpecSelection == SelectionInit /\ [][SelectionNext]_vars

(***************************************************************************)
(* ai_red.py: main(), one run of the Red program of the file exchange.  A  *)
(* text file is the sequence of its lines and a line the sequence of the   *)
(* integers written on it; a file that does not exist is None.  pc:        *)
(* "start", "written" (main is over, the output file is written).          *)
(***************************************************************************)
\* the lines write_output_file writes for a board, and the five board lines
\* of an input file
Rows(b) == [i \in 1..board_size |-> [j \in 1..board_size |-> At(b, i - 1, j - 1)]]

ExchangeBoards ==
    { BoardOf({<<3, 3, 2>>, <<8, 1, 1>>}),
      BoardOf({<<3, 4, 3>>, <<8, 1, 1>>}),
      BoardOf({<<2, 3, 3>>, <<5, 2, 2>>, <<8, 0, 0>>, <<11, 0, 2>>}) }

\* the input files: none, well-formed ones (whatever the numbers on the first
\* line), one whose first line lacks the die, one that lacks a board line, one
\* with a board line that is too short
InputFiles ==
    {None}
    \cup {<< <<difficulty, die>> >> \o Rows(b) :
             difficulty \in {3, 4, 5, 7}, die \in 0..7, b \in ExchangeBoards}
    \cup {<< <<4>> >> \o Rows(b) : b \in ExchangeBoards}
    \cup {<< <<4, 3>> >> \o SubSeq(Rows(b), 1, 4) : b \in ExchangeBoards}
    \cup {<< <<4, 3>> >> \o [Rows(b) EXCEPT ![5] = <<0, 0>>] : b \in ExchangeBoards}

\* whether the try block of parse_input_file gets through: the file opens,
\* lines[0] has two numbers, lines[1..5] exist and make a rectangular array
parses(file) ==
    /\ file # None
    /\ Len(file) >= 6
    /\ Len(file[1]) >= 2
    /\ \A i \in 2..6 : Len(file[i]) = board_size

\* FileHandler.parse_input_file: (difficulty, die, board), the defaults of the
\* except branch when anything went wrong
parse_input_file(file) ==
    IF parses(file)
    THEN [difficulty |-> file[1][1], die |-> file[1][2],
          board |-> [k \in 1..(board_size * board_size) |->
                        file[2 + ((k - 1) \div board_size)][1 + ((k - 1) % board_size)]]]
    ELSE [difficulty |-> 4, die |-> 1, board |-> BoardOf({})]

\* FileHandler.write_output_file: the lines of the file it leaves
write_output_file(b) == Rows(b)

\* Config.MCTS_SIMULATIONS.get(difficulty, 2000)
MCTS_SIMULATIONS(difficulty) ==
    IF difficulty = 3 THEN 1000
    ELSE IF difficulty = 4 THEN 10000
    ELSE IF difficulty = 5 THEN 50000
    ELSE 2000

\* main: parse, RedAI.get_best_move (outcome is what its search call ends
\* with), write; when the search raised, parse again and write that board
main(file, outcome) ==
    LET parsed == parse_input_file(file)
        num_simulations == MCTS_SIMULATIONS(parsed.difficulty)
        new_board == IF outcome.best_move = None
                     THEN parsed.board
                     ELSE make_move(parsed.board, outcome.best_move).new_board
    IN  [pc |-> "written", file |-> file,
         difficulty |-> parsed.difficulty, die |-> parsed.die, board |-> parsed.board,
         search_calls |-> << <<parsed.die, -1, num_simulations>> >>,
         best_move |-> outcome.best_move,
         output |-> IF outcome.raised
                    THEN write_output_file(parse_input_file(file).board)
                    ELSE write_output_file(new_board)]

ExchangeInit ==
    /\ \E file \in InputFiles :
          exchange = [pc |-> "start", file |-> file, difficulty |-> 0, die |-> 0,
                      board |-> None, search_calls |-> <<>>, best_move |-> None,
                      output |-> None]
    /\ board = BoardOf({})
    /\ prev_board = board
    /\ prev_after = board
    /\ move = None
    /\ run = Idle
    /\ twin = Idle
    /\ battle = Idle
    /\ harness = Idle
    /\ workers = Idle
    /\ rollout = Idle
    /\ gui = Idle
    /\ tournament = Idle
    /\ opening = Idle
    /\ selection = Idle
    /\ evaluation = Idle

Main ==
    /\ exchange.pc = "start"
    /\ LET parsed == parse_input_file(exchange.file)
       IN  \E outcome \in search_results(parsed.board, parsed.die, -1,
                                         MCTS_SIMULATIONS(parsed.difficulty)) :
               exchange' = main(exchange.file, outcome)
    /\ UNCHANGED <<rule_vars, search_vars, battle_vars, rollout, gui, tournament, opening, selection, evaluation>>

ExchangeNext == Main

SpecExchange == ExchangeInit /\ [][ExchangeNext]_vars

(***************************************************************************)
(* core/game_engine.py: one evaluate_position call.  pc: "call",           *)
(* "returned".                                                             *)
(***************************************************************************)
\* the boards it is called on: every board with Red's 3 and Blue's 8 alone,
\* and boards with more tokens and with unequal numbers of them
EvaluationBoards ==
    {BoardOf({<<3, r[1], r[2]>>, <<8, c[1], c[2]>>}) : r \in Cells, c \in Cells}
    \cup {BoardOf({<<3, r[1], r[2]>>, <<5, 2, 2>>, <<8, 0, 1>>, <<11, 1, 0>>, <<12, 3, 4>>}) :
              r \in Cells \ {<<2, 2>>, <<0, 1>>, <<1, 0>>, <<3, 4>>}}
    \cup {BoardOf({<<1, 4, 3>>, <<2, 3, 4>>, <<6, 1, 1>>, <<8, c[1], c[2]>>}) :
              c \in Cells \ {<<4, 3>>, <<3, 4>>, <<1, 1>>}}

EvaluationInit ==
    /\ \E b \in EvaluationBoards, player \in Players :
          evaluation = [pc |-> "call", board |-> b, player |-> player, score |-> 0]
    /\ board = BoardOf({})
    /\ prev_board = board
    /\ prev_after = board
    /\ move = None
    /\ run = Idle
    /\ twin = Idle
    /\ battle = Idle
    /\ harness = Idle
    /\ workers = Idle
    /\ rollout = Idle
    /\ gui = Idle
    /\ tournament = Idle
    /\ opening = Idle
    /\ selection = Idle
    /\ exchange = Idle

Evaluate ==
    /\ evaluation.pc = "call"
    /\ evaluation' = [evaluation EXCEPT
                         !.pc = "returned",
                         !.score = evaluate_position(evaluation.board, evaluation.player)]
    /\ UNCHANGED <<rule_vars, search_vars, battle_vars, rollout, gui,
                   tournament, opening, selection, exchange>>

EvaluationNext == Evaluate

SpecEvaluation == EvaluationInit /\ [][EvaluationNext]_vars

(***************************************************************************)
(* core/pmcts.py: one MCTSNode.simulate call on a node self, as search     *)
(* makes it (max_moves left at its default).  pc: "loop" (at the while     *)
(* condition), "returned".  result is in half points, -1 before the return.*)
(***************************************************************************)
simulate(self) ==
    [pc |-> "loop", self |-> self,
     current_board |-> self.board, current_player |-> self.player,
     moves_count |-> 0, result |-> -1]

simulate_return(s) ==
    [s EXCEPT !.pc = "returned",
              !.result = simulate_result(s.self, s.current_board)]

\* one round of the while loop: die rolled, the k-th legal move chosen
simulate_round(s, die, k) ==
    LET legal_moves == get_legal_moves(s.current_board, die, s.current_player)
    IN  IF legal_moves = <<>>
        THEN simulate_return(s)
        ELSE [s EXCEPT
                 !.current_board = make_move(s.current_board, legal_moves[k]).new_board,
                 !.current_player = -s.current_player,
                 !.moves_count = @ + 1]

\* the boards of the nodes it is called on
RolloutBoards ==
    { BoardOf({<<3, 3, 2>>, <<8, 1, 2>>}),
      BoardOf({<<2, 2, 2>>, <<5, 3, 3>>, <<8, 1, 1>>, <<11, 2, 1>>}),
      BoardOf({<<1, 3, 4>>, <<6, 2, 3>>, <<7, 3, 3>>, <<9, 1, 0>>}),
      \* a finished game: Blue stands on (0,0)
      BoardOf({<<3, 2, 2>>, <<8, 0, 0>>}) }

RolloutInit ==
    /\ \E b \in RolloutBoards, player \in Players :
          rollout = simulate(MCTSNode(b, player, None, FALSE))
    /\ board = BoardOf({})
    /\ prev_board = board
    /\ prev_after = board
    /\ move = None
    /\ run = Idle
    /\ twin = Idle
    /\ battle = Idle
    /\ harness = Idle
    /\ workers = Idle
    /\ ToolsIdle
    /\ gui = Idle

RolloutRound ==
    /\ rollout.pc = "loop"
    /\ simulate_continues(rollout)
    /\ \E die \in Dice :
          LET legal_moves == get_legal_moves(rollout.current_board, die,
                                             rollout.current_player)
          IN  \E k \in 1..(IF legal_moves = <<>> THEN 1 ELSE Len(legal_moves)) :
                 rollout' = simulate_round(rollout, die, k)
    /\ UNCHANGED <<rule_vars, search_vars, battle_vars, tool_vars, gui>>

RolloutReturn ==
    /\ rollout.pc = "loop"
    /\ ~simulate_continues(rollout)
    /\ rollout' = simulate_return(rollout)
    /\ UNCHANGED <<rule_vars, search_vars, battle_vars, tool_vars, gui>>

RolloutNext == RolloutRound \/ RolloutReturn

SpecRollout == RolloutInit /\ [][RolloutNext]_vars

(***************************************************************************)
(* gui_main.py: the game window while the human is to move.  The record    *)
(* holds the fields of EinsteinGUI the handlers below read or write; pc is *)
(* "human" (game running, the human's turn), "ai" (the AI's turn; its      *)
(* program runs outside the window) or "over".  message is the dialog the  *)
(* handler that ran last has shown ("" for none), clicked the cell of the  *)
(* last handle_board_click (None when another handler ran last).           *)
(***************************************************************************)
is_player_piece(piece, player) ==
    IF player = 1
    THEN 1 <= piece /\ piece <= 6
    ELSE 7 <= piece /\ piece <= 12

is_human_turn(g) == g.current_player = g.human_player

get_piece_legal_moves(g, row, col) ==
    LET all_moves == get_legal_moves(g.board, g.current_die, g.current_player)
    IN  SelectSeq(all_moves, LAMBDA m : m[1] = row /\ m[2] = col)

\* the layout of setup_initial_board before token 6 is placed
initial_layout ==
    BoardOf({<<11, 0, 3>>, <<12, 0, 4>>, <<10, 1, 1>>, <<9, 2, 2>>, <<8, 2, 3>>,
             <<7, 3, 1>>, <<1, 4, 0>>, <<2, 4, 1>>, <<3, 4, 2>>, <<4, 4, 3>>,
             <<5, 4, 4>>})

\* pos is the cell random.choice(empty_positions) returns
setup_initial_board(pos) ==
    [initial_layout EXCEPT ![Idx(pos[1], pos[2])] = 6]

\* the players on_mode_change sets
on_mode_change(game_mode) ==
    IF game_mode = "human_vs_ai"
    THEN [human_player |-> 1, ai_player |-> -1]
    ELSE [human_player |-> -1, ai_player |-> 1]

switch_to_ai_turn(g) ==
    [g EXCEPT !.current_player = g.ai_player, !.pc = "ai"]

switch_to_human_turn(g) ==
    [g EXCEPT !.current_player = g.human_player, !.pc = "human"]

handle_game_over(g) == [g EXCEPT !.pc = "over"]

\* new_game in the given mode: reset_game, then the turn of the side that is 1
new_game(game_mode, pos) ==
    LET players == on_mode_change(game_mode)
        reset == [pc |-> "reset", game_mode |-> game_mode,
                  human_player |-> players.human_player,
                  ai_player |-> players.ai_player,
                  current_player |-> 1, current_die |-> 1,
                  board |-> setup_initial_board(pos),
                  selected_piece |-> None, legal_moves |-> <<>>,
                  message |-> "", clicked |-> None]
    IN  IF reset.current_player = reset.ai_player
        THEN switch_to_ai_turn(reset)
        ELSE switch_to_human_turn(reset)

process_human_turn(g) ==
    LET legal_moves == get_legal_moves(g.board, g.current_die, g.current_player)
    IN  IF legal_moves = <<>>
        THEN switch_to_ai_turn([g EXCEPT !.message = "no legal move, turn skipped"])
        ELSE [g EXCEPT !.legal_moves = legal_moves]

\* die_value is the number typed into the entry
confirm_dice(g, die_value) ==
    LET shown == [g EXCEPT !.message = "", !.clicked = None]
    IN  IF 1 <= die_value /\ die_value <= 6
        THEN LET set == [shown EXCEPT !.current_die = die_value]
             IN  IF is_human_turn(set) THEN process_human_turn(set) ELSE set
        ELSE [shown EXCEPT !.message = "the die must be within 1-6"]

execute_human_move(g, mv) ==
    LET moved == [g EXCEPT !.board = make_move(g.board, mv).new_board]
    IN  IF is_game_over(moved.board)
        THEN handle_game_over(moved)
        ELSE switch_to_ai_turn(moved)

handle_board_click(g, row, col) ==
    LET piece == At(g.board, row, col)
        at == [g EXCEPT !.message = "", !.clicked = <<row, col>>]
    IN  IF piece # 0 /\ is_player_piece(piece, g.current_player)
        THEN LET legal_moves == get_piece_legal_moves(g, row, col)
             IN  IF legal_moves = <<>>
                 THEN [at EXCEPT !.selected_piece = None,
                                 !.legal_moves = legal_moves,
                                 !.message = "this piece cannot move"]
                 ELSE [at EXCEPT !.selected_piece = <<row, col>>,
                                 !.legal_moves = legal_moves]
        ELSE IF g.selected_piece # None
        THEN LET mv == g.selected_piece \o <<row, col>>
                 after == IF mv \in Range(g.legal_moves)
                          THEN execute_human_move(at, mv)
                          ELSE [at EXCEPT !.message = "this is not a legal move"]
             IN  [after EXCEPT !.selected_piece = None, !.legal_moves = <<>>]
        ELSE at

\* handle_ai_error: the AI's program failed or returned no move
handle_ai_error(g) ==
    switch_to_human_turn([g EXCEPT !.message = "AI failed", !.clicked = None])

\* import_board with a well-formed file holding board b
import_board(g, b) ==
    [g EXCEPT !.board = b, !.message = "board imported", !.clicked = None]

GuiInit ==
    /\ \E game_mode \in {"human_vs_ai", "ai_vs_human"} :
          \E pos \in {c \in Cells : At(initial_layout, c[1], c[2]) = 0} :
              gui = new_game(game_mode, pos)
    /\ board = BoardOf({})
    /\ prev_board = board
    /\ prev_after = board
    /\ move = None
    /\ run = Idle
    /\ twin = Idle
    /\ battle = Idle
    /\ harness = Idle
    /\ workers = Idle
    /\ ToolsIdle
    /\ rollout = Idle

ConfirmDice ==
    /\ gui.pc = "human"
    /\ \E die_value \in 0..7 : gui' = confirm_dice(gui, die_value)
    /\ UNCHANGED <<rule_vars, search_vars, battle_vars, tool_vars, rollout>>

\* on_board_click lets a click through while the game runs and the human is to move
BoardClick ==
    /\ gui.pc = "human"
    /\ is_human_turn(gui)
    /\ \E row \in 0..4, col \in 0..4 : gui' = handle_board_click(gui, row, col)
    /\ UNCHANGED <<rule_vars, search_vars, battle_vars, tool_vars, rollout>>

AiError ==
    /\ gui.pc = "ai"
    /\ gui' = handle_ai_error(gui)
    /\ UNCHANGED <<rule_vars, search_vars, battle_vars, tool_vars, rollout>>

\* the boards loaded: both sides away from their goals
ImportBoard ==
    /\ gui.pc \in {"human", "ai"}
    /\ \E b \in { BoardOf({<<1, 1, 1>>, <<4, 2, 3>>, <<8, 3, 2>>, <<11, 2, 1>>}),
                  BoardOf({<<3, 0, 4>>, <<9, 4, 0>>}) } :
          gui' = import_board(gui, b)
    /\ UNCHANGED <<rule_vars, search_vars, battle_vars, tool_vars, rollout>>

GuiNext == ConfirmDice \/ BoardClick \/ AiError \/ ImportBoard

SpecGui == GuiInit /\ [][GuiNext]_vars

(***************************************************************************)
(* The boards the rules are exercised on: the spec's three scenarios, a    *)
(* board with three tokens a side and one where Red stands next to Blue    *)
(* tokens it can capture; every board reachable from them by legal moves.  *)
(***************************************************************************)
RuleBoards ==
    { BoardOf({<<3, 3, 3>>, <<5, 4, 3>>, <<8, 1, 0>>, <<11, 1, 1>>}),
      BoardOf({<<2, 3, 2>>, <<5, 2, 3>>, <<9, 0, 1>>}),
      BoardOf({<<1, 3, 2>>, <<4, 3, 3>>, <<6, 2, 4>>,
               <<7, 1, 1>>, <<10, 0, 2>>, <<12, 2, 0>>}),
      BoardOf({<<2, 3, 2>>, <<5, 3, 3>>, <<8, 4, 3>>}) }

RuleInit ==
    /\ board \in RuleBoards
    /\ prev_board = board
    /\ prev_after = board
    /\ move = None
    /\ run = Idle
    /\ twin = Idle
    /\ battle = Idle
    /\ harness = Idle
    /\ workers = Idle
    /\ ToolsIdle
    /\ rollout = Idle
    /\ gui = Idle

\* One engine round: enumerate the legal moves of (board, die, player), apply one.
Play ==
    /\ ~is_game_over(board)
    /\ \E die \in Dice, player \in Players :
        LET legal_moves == get_legal_moves(board, die, player)
        IN  \E i \in 1..Len(legal_moves) :
            LET m == legal_moves[i]
                r == make_move(board, m)
            IN  /\ board' = r.new_board
                /\ prev_board' = board
                /\ prev_after' = r.board
                /\ move' = m
    /\ UNCHANGED <<search_vars, battle_vars, tool_vars, rollout, gui>>

Next == Play

Spec == RuleInit /\ [][Next]_vars

(***************************************************************************)
(* Rules: the claims                                                       *)
(***************************************************************************)
RedTokens == 1..6
BlueTokens == 7..12
OwnTokens(player) == IF player = Red THEN RedTokens ELSE BlueTokens
TokensOn(b, tokens) == {b[i] : i \in 1..Len(b)} \cap tokens
NoDuplicates(s) == \A i, j \in 1..Len(s) : s[i] = s[j] => i = j
UniqueTokens(b) == \A i, j \in 1..Len(b) : (b[i] # 0 /\ b[i] = b[j]) => i = j

\* The moves the rule book gives (board, die, player): one step along one of the
\* player's three vectors from the cell of a movable token, staying on the grid.
RuleBookMoves(b, die, player) ==
    LET movable == Range(_find_movable_pieces(b, die, player))
        vectors == IF player = Red
                   THEN {<<1, 0>>, <<0, 1>>, <<1, 1>>}
                   ELSE {<<-1, 0>>, <<0, -1>>, <<-1, -1>>}
    IN  {m \in {<<c[1], c[2], c[1] + v[1], c[2] + v[2]>> : c \in Cells, v \in vectors} :
            /\ At(b, m[1], m[2]) \in movable
            /\ <<m[3], m[4]>> \in Cells}

\* C1: on every board with unique tokens, for every die and player, get_legal_moves
\* returns exactly (each once) the moves from the cell of a movable token along one
\* of the player's three direction vectors that stay inside the grid; an occupied
\* destination removes no move and no move starts from an opponent's token or an
\* empty cell.
C1_LegalMovesExact ==
    UniqueTokens(board) =>
        \A die \in Dice, player \in Players :
            LET moves == get_legal_moves(board, die, player)
            IN  /\ Range(moves) = RuleBookMoves(board, die, player)
                /\ NoDuplicates(moves)
                /\ \A m \in Range(moves) : At(board, m[1], m[2]) \in OwnTokens(player)

\* The last move landed on an own token while, under the same die, a move onto an
\* enemy token was offered as well.
C1_Witness ==
    /\ move # None
    /\ \E die \in Dice, player \in Players :
        LET moves == Range(get_legal_moves(prev_board, die, player))
        IN  /\ move \in moves
            /\ At(prev_board, move[3], move[4]) \in OwnTokens(player)
            /\ \E m \in moves : At(prev_board, m[3], m[4]) \in OwnTokens(-player)

\* C2: the movable set is {canonical} when the canonical token (die for Red,
\* die + 6 for Blue) is on the board; otherwise it is the smallest own token above
\* it and the largest own token below it, each left out when absent.  It has at most
\* two tokens, no opponent token, and is empty only when the player has no token.
C2_MovableSet ==
    \A die \in Dice, player \in Players :
        LET movable == Range(_find_movable_pieces(board, die, player))
            canonical == IF player = Red THEN die ELSE die + 6
            own == TokensOn(board, OwnTokens(player))
            U == {t \in own : t > canonical /\ \A u \in own : u > canonical => t <= u}
            L == {t \in own : t < canonical /\ \A u \in own : u < canonical => u <= t}
        IN  /\ canonical \in own => movable = {canonical}
            /\ canonical \notin own => movable = U \cup L
            /\ Cardinality(movable) <= 2
            /\ movable \subseteq OwnTokens(player)
            /\ (movable = {}) <=> (own = {})
            /\ NoDuplicates(_find_movable_pieces(board, die, player))

\* Red held exactly {2, 5}, die 3 made both movable, and token 2 was moved.
C2_Witness ==
    /\ move # None
    /\ TokensOn(prev_board, RedTokens) = {2, 5}
    /\ Range(_find_movable_pieces(prev_board, 3, Red)) = {5, 2}
    /\ At(prev_board, move[1], move[2]) = 2
    /\ move \in Range(get_legal_moves(prev_board, 3, Red))

\* C3: make_move returns a board whose destination cell holds the token that was on
\* the source cell, whose source cell is empty and whose other cells are unchanged
\* (so a token on the destination is gone); the input board is not modified.
C3_MakeMoveFrame ==
    move # None =>
        /\ At(board, move[3], move[4]) = At(prev_board, move[1], move[2])
        /\ At(board, move[1], move[2]) = 0
        /\ \A c \in Cells :
               (c # <<move[1], move[2]>> /\ c # <<move[3], move[4]>>)
                   => At(board, c[1], c[2]) = At(prev_board, c[1], c[2])
        /\ Len(board) = Len(prev_board)
        /\ prev_after = prev_board

\* The last move captured an enemy token, which is no longer on the board.
C3_Witness ==
    /\ move # None
    /\ At(prev_board, move[3], move[4]) # 0
    /\ (At(prev_board, move[3], move[4]) \in RedTokens)
           # (At(prev_board, move[1], move[2]) \in RedTokens)
    /\ At(prev_board, move[3], move[4]) \notin TokensOn(board, RedTokens \cup BlueTokens)

RedOnGoal(b) == At(b, 4, 4) \in RedTokens
BlueOnGoal(b) == At(b, 0, 0) \in BlueTokens
RedGone(b) == TokensOn(b, RedTokens) = {}
BlueGone(b) == TokensOn(b, BlueTokens) = {}

\* C4: is_game_over is true exactly when a Red token is on (4,4), a Blue token is on
\* (0,0), Red has no token or Blue has no token.
C4_TerminalIff ==
    is_game_over(board) <=>
        (RedOnGoal(board) \/ BlueOnGoal(board) \/ RedGone(board) \/ BlueGone(board))

\* The last move took the last token of a side while no corner is occupied by its owner.
C4_Witness ==
    /\ move # None
    /\ is_game_over(board)
    /\ ~RedOnGoal(board) /\ ~BlueOnGoal(board)
    /\ ~is_game_over(prev_board)

\* C5: get_winner returns 0 exactly on non-terminal boards; on a terminal board whose
\* satisfied conditions name one side it returns that side: Red (-1) for a Red token
\* on (4,4) or no Blue token, Blue (1) for a Blue token on (0,0) or no Red token.
C5_Winner ==
    LET red_wins == RedOnGoal(board) \/ BlueGone(board)
        blue_wins == BlueOnGoal(board) \/ RedGone(board)
    IN  /\ (get_winner(board) = 0) <=> ~is_game_over(board)
        /\ (red_wins /\ ~blue_wins) => get_winner(board) = Red
        /\ (blue_wins /\ ~red_wins) => get_winner(board) = Blue

\* Blue just captured the last Red token and is named the winner.
C5_Witness ==
    /\ move # None
    /\ RedGone(board)
    /\ ~RedGone(prev_board)
    /\ ~BlueOnGoal(board)
    /\ get_winner(board) = Blue

\* C13: from a board on which each token appears at most once, after any sequence
\* of moves returned by get_legal_moves and applied with make_move each token still
\* appears at most once, and neither side's piece count ever increases.
C13_TokensStayUnique ==
    /\ UniqueTokens(board)
    /\ red_count(board) <= red_count(prev_board)
    /\ blue_count(board) <= blue_count(prev_board)
    /\ red_count(board) = Cardinality(TokensOn(board, RedTokens))
    /\ blue_count(board) = Cardinality(TokensOn(board, BlueTokens))

\* The last move landed on a token of the mover's own side, whose count went down.
C13_Witness ==
    /\ move # None
    /\ \E player \in Players :
          /\ At(prev_board, move[1], move[2]) \in OwnTokens(player)
          /\ At(prev_board, move[3], move[4]) \in OwnTokens(player)
          /\ Cardinality(TokensOn(board, OwnTokens(player)))
                 = Cardinality(TokensOn(prev_board, OwnTokens(player))) - 1
    /\ UniqueTokens(board)

\* C14: on every non-terminal board each player has a die under which
\* get_legal_moves is not empty; every board on which one colour has no token is
\* terminal.
C14_SomeDieMoves ==
    /\ ~is_game_over(board) =>
           \A player \in Players : \E die \in Dice :
               get_legal_moves(board, die, player) # <<>>
    /\ (RedGone(board) \/ BlueGone(board)) => is_game_over(board)

\* Play goes on with a side reduced to one token that stands on the edge of the
\* grid, where a single direction stays inside.
C14_Witness ==
    /\ move # None
    /\ ~is_game_over(board)
    /\ \E player \in Players :
          /\ Cardinality(TokensOn(board, OwnTokens(player))) = 1
          /\ \A die \in Dice : Len(get_legal_moves(board, die, player)) = 1

RedHasWon(b) == At(b, 4, 4) \in RedTokens \/ blue_count(b) = 0
BlueHasWon(b) == At(b, 0, 0) \in BlueTokens \/ red_count(b) = 0
Mover(b, m) == IF At(b, m[1], m[2]) \in RedTokens THEN Red ELSE Blue

\* C36: the side that makes the game-ending move is the winner.  From a
\* non-terminal board with unique tokens, every legal move of player P (captures
\* of P's own tokens included) that yields a terminal board yields one whose
\* get_winner is P and on which the other side's winning condition does not
\* hold; check_immediate_win finds a move exactly when a legal move ends the
\* game, and the move it finds is legal, ends the game and makes P the winner.
\* The same holds of the move that was actually played.
C36_MoverWins ==
    /\ (~is_game_over(board) /\ UniqueTokens(board)) =>
           \A die \in Dice, P \in Players :
               LET legal_moves == get_legal_moves(board, die, P)
                   after(m) == make_move(board, m).new_board
                   found == check_immediate_win(board, die, P)
               IN  /\ \A m \in Range(legal_moves) :
                          is_game_over(after(m)) =>
                              /\ get_winner(after(m)) = P
                              /\ ~(RedHasWon(after(m)) /\ BlueHasWon(after(m)))
                              /\ IF P = Red THEN RedHasWon(after(m))
                                            ELSE BlueHasWon(after(m))
                   /\ found = None <=>
                          \A m \in Range(legal_moves) : ~is_game_over(after(m))
                   /\ found # None =>
                          /\ found \in Range(legal_moves)
                          /\ is_game_over(after(found))
                          /\ get_winner(after(found)) = P
    /\ (move # None /\ is_game_over(board)) =>
           /\ get_winner(board) = Mover(prev_board, move)
           /\ ~(RedHasWon(board) /\ BlueHasWon(board))

\* Red has ended the game by capturing the last Blue token, away from (4,4)
C36_Witness ==
    /\ move # None
    /\ ~is_game_over(prev_board)
    /\ At(prev_board, move[3], move[4]) \in BlueTokens
    /\ Mover(prev_board, move) = Red
    /\ blue_count(board) = 0
    /\ At(board, 4, 4) = 0
    /\ is_game_over(board)
    /\ get_winner(board) = Red

(***************************************************************************)
(* Search: the claims                                                      *)
(***************************************************************************)
SearchLegalMoves == get_legal_moves(run.board, run.die, run.player)
RootChildren == run.nodes[RootId].probability_children[run.die].children
Returned == run.pc = "done"
LoopEntered == run.nodes # EmptyFcn

\* C6: search returns None when there is no legal move and the single legal move
\* when there is exactly one, in both cases without creating a root node, running
\* an iteration or consuming a random draw.
C6_TrivialSearch ==
    (run.pc # "call" /\ Len(SearchLegalMoves) <= 1) =>
        /\ run.pc = "done"
        /\ Len(SearchLegalMoves) = 0 => run.best_move = None
        /\ Len(SearchLegalMoves) = 1 => run.best_move = SearchLegalMoves[1]
        /\ run.nodes = EmptyFcn
        /\ run.simulation = 0
        /\ ~run.rng_used

\* search was given a positive budget and one legal move, and returned that move.
C6_Witness ==
    /\ Returned
    /\ run.num_simulations >= 10
    /\ Len(SearchLegalMoves) = 1
    /\ run.best_move = SearchLegalMoves[1]

\* C7: when search ran its loop, the move it returns is a legal move for
\* (board, die, player): the move of the child with the most visits under the root's
\* ProbabilityNode of the observed die, the first such child in legal-move order.
C7_BestMove ==
    (Returned /\ LoopEntered) =>
        /\ \E i \in 1..Len(SearchLegalMoves) : run.best_move = SearchLegalMoves[i]
        /\ Len(RootChildren) = Len(SearchLegalMoves)
        /\ \A i \in 1..Len(RootChildren) :
               run.nodes[RootChildren[i]].move = SearchLegalMoves[i]
        /\ \E i \in 1..Len(RootChildren) :
               /\ run.nodes[RootChildren[i]].move = run.best_move
               /\ \A j \in 1..Len(RootChildren) :
                      run.nodes[RootChildren[j]].visits <= run.nodes[RootChildren[i]].visits
               /\ \A j \in 1..(i - 1) :
                      run.nodes[RootChildren[j]].visits < run.nodes[RootChildren[i]].visits

\* After a full loop two children tie on the largest visit count, and a later child
\* has fewer visits than the one returned.
C7_Witness ==
    /\ Returned /\ LoopEntered
    /\ run.num_simulations >= 10
    /\ \E i, j \in 1..Len(RootChildren) :
          /\ i < j
          /\ run.nodes[RootChildren[i]].visits = run.nodes[RootChildren[j]].visits
          /\ run.nodes[RootChildren[i]].visits > 0
          /\ \A k \in 1..Len(RootChildren) :
                 run.nodes[RootChildren[k]].visits <= run.nodes[RootChildren[i]].visits

\* C8: for every budget K >= 0 and every (board, die, player) with at least two
\* legal moves, search runs exactly K iterations and then returns a move; it never
\* ends in an error.
C8_BudgetHonoured ==
    /\ run.pc # "raised"
    /\ (Returned /\ Len(SearchLegalMoves) >= 2) =>
           /\ run.simulation = run.num_simulations
           /\ run.best_move \in Range(SearchLegalMoves)

\* C9: on every board on which is_game_over is true, search returns None for every
\* die and player, also when get_legal_moves is not empty.
C9_TerminalIsNoMove ==
    (Returned /\ is_game_over(run.board)) => run.best_move = None

RECURSIVE SumOver(_, _)
SumOver(f, S) ==
    IF S = {}
    THEN 0
    ELSE LET x == CHOOSE y \in S : TRUE
         IN  f[x] + SumOver(f, S \ {x})

\* the distinct child nodes of a node: those created by its expansion
ChildNodes(id) ==
    {c \in DOMAIN run.nodes : Len(c) = Len(id) + 1 /\ SubSeq(c, 1, Len(id)) = id}
RolloutsAt(id) == IF id \in DOMAIN run.rollouts THEN run.rollouts[id] ELSE 0
Iterations == SumOver(run.rollouts, DOMAIN run.rollouts)

\* C11: after K iterations of the loop the root has exactly K visits, and every
\* node's visits are the rollouts started at it plus the visits of its distinct
\* child nodes (the iterations whose rollout started at or below it).
C11_VisitAccounting ==
    LoopEntered =>
        /\ run.nodes[RootId].visits = Iterations
        /\ run.pc # "raised" => Iterations = run.simulation
        /\ Returned => run.nodes[RootId].visits = run.num_simulations
        /\ DOMAIN run.rollouts \subseteq DOMAIN run.nodes
        /\ \A id \in DOMAIN run.nodes :
               run.nodes[id].visits =
                   RolloutsAt(id)
                   + SumOver([c \in ChildNodes(id) |-> run.nodes[c].visits], ChildNodes(id))

\* A full loop has ended; rollouts started at a grandchild of the root, at a child
\* of the root, and that child was visited more often than rollouts started at it.
C11_Witness ==
    /\ Returned /\ LoopEntered
    /\ run.num_simulations >= 10
    /\ \E id \in DOMAIN run.nodes :
          /\ Len(id) = 2
          /\ RolloutsAt(id) > 0
          /\ run.nodes[id].visits > RolloutsAt(id)
          /\ \E c \in ChildNodes(id) : RolloutsAt(c) > 0

\* C12: after a node is expanded, for every die the children of its ProbabilityNode
\* are exactly one node per legal move under that die, holding the board after the
\* move and the opponent as player; a move legal under several dice has one single
\* child node, linked under each of those ProbabilityNodes, whose parent list holds
\* every one of them.
C12_ExpansionShape ==
    \A id \in DOMAIN run.nodes :
        LET self == run.nodes[id]
            legal(d) == get_legal_moves(self.board, d, self.player)
        IN  self.probability_children # <<>> =>
                /\ DOMAIN self.probability_children = 1..6
                /\ \A d \in 1..6 :
                       LET prob_node == self.probability_children[d]
                       IN  /\ prob_node.dice_value = d
                           /\ prob_node.parent_mcts_node = id
                           /\ Len(prob_node.children) = Len(legal(d))
                           /\ NoDuplicates(prob_node.children)
                           /\ Range(prob_node.children) \subseteq DOMAIN run.nodes
                           /\ {run.nodes[c].move : c \in Range(prob_node.children)}
                                  = Range(legal(d))
                /\ \A c \in ChildNodes(id) :
                       LET child == run.nodes[c]
                           enabling == {d \in 1..6 : child.move \in Range(legal(d))}
                       IN  /\ c = Append(id, child.move)
                           /\ child.board = make_move(self.board, child.move).new_board
                           /\ child.player = -self.player
                           /\ enabling # {}
                           /\ \A d \in enabling :
                                  c \in Range(self.probability_children[d].children)
                           /\ Range(child.parent_prob_nodes)
                                  = {<<id, d>> : d \in enabling}
                           /\ NoDuplicates(child.parent_prob_nodes)
                /\ \A c1, c2 \in ChildNodes(id) :
                       run.nodes[c1].move = run.nodes[c2].move => c1 = c2

\* A node below the root has been expanded; one of its children is linked under
\* several of its ProbabilityNodes but not under all six.
C12_Witness ==
    \E id \in DOMAIN run.nodes :
        /\ id # RootId
        /\ run.nodes[id].probability_children # <<>>
        /\ \E c \in ChildNodes(id) :
              /\ Len(run.nodes[c].parent_prob_nodes) >= 2
              /\ Len(run.nodes[c].parent_prob_nodes) < 6

\* C27: once the per-move time cap of the searcher's configuration has run
\* out, search starts no further iteration: the cap is looked at before every
\* iteration, so an iteration begins only while time is left.
C27_CapEndsSearch ==
    (run.pc = "select" /\ run.node = RootId) => run.elapsed < run.time_limit

\* the children of the root linked under the ChanceNode of the observed die
UnderObservedDie ==
    Range(run.nodes[RootId].probability_children[run.die].children)

\* C30: when the root position is not terminal, selection at the root goes
\* through the ChanceNode of the observed die only, which has probability 1
\* while the other five have 0: whatever the number of iterations, a child of
\* the root that is not linked under that ChanceNode has no visits, and the
\* visits of the children linked under it add up to the visits of the root.
\* Every expanded node other than the root has six ChanceNodes of probability
\* 1/6 each (probabilities are held as sixths).
C30_RootFollowsObservedDie ==
    (run.pc # "idle" /\ RootId \in DOMAIN run.nodes /\ ~is_game_over(run.board)) =>
        LET root == run.nodes[RootId]
        IN  /\ \A d \in Dice :
                   root.probability_children[d].probability = IF d = run.die THEN 6 ELSE 0
            /\ \A c \in ChildNodes(RootId) \ UnderObservedDie : run.nodes[c].visits = 0
            /\ SumOver([c \in UnderObservedDie |-> run.nodes[c].visits], UnderObservedDie)
                   = root.visits
            /\ \A id \in DOMAIN run.nodes \ {RootId} :
                   run.nodes[id].probability_children # <<>> =>
                       /\ Len(run.nodes[id].probability_children) = 6
                       /\ \A d \in Dice :
                              run.nodes[id].probability_children[d].probability = 1

\* several iterations into a search whose root has children that only other
\* dice reach, with an expanded node below the root
C30_Witness ==
    /\ run.pc \in {"select", "simulate", "done"}
    /\ RootId \in DOMAIN run.nodes
    /\ ~is_game_over(run.board)
    /\ run.simulation >= 3
    /\ ChildNodes(RootId) \ UnderObservedDie # {}
    /\ \E id \in DOMAIN run.nodes \ {RootId} : run.nodes[id].probability_children # <<>>

\* the child that selection is to take among children (a ChanceNode's list, in
\* insertion order) of a node with N visits: the first one without visits, or,
\* when all have been visited, the one of largest UCB value, the earliest
\* among equals
ChildToTake(children, N) ==
    LET unvisited == {i \in DOMAIN children : run.nodes[children[i]].visits = 0}
    IN  IF unvisited # {}
        THEN CHOOSE i \in unvisited : \A j \in unvisited : i <= j
        ELSE CHOOSE i \in DOMAIN children :
                 \A j \in DOMAIN children :
                     /\ j < i => ucb_greater(run.nodes[children[i]], run.nodes[children[j]], N)
                     /\ j > i => ~ucb_greater(run.nodes[children[j]], run.nodes[children[i]], N)

\* C31: when selection goes down from a node through a ChanceNode, it takes the
\* first child without visits if there is one; only when every child has been
\* visited are UCB values compared, and then the child of largest value is
\* taken, the one inserted earlier when values are equal.
C31_SelectionOrder ==
    [][(run.pc = "select" /\ run'.pc = "select" /\ run'.node # run.node) =>
          \E d \in Dice :
              LET prob_node == run.nodes[run.node].probability_children[d]
              IN  /\ prob_node.probability > 0
                  /\ prob_node.children # <<>>
                  /\ run'.node = prob_node.children[
                         ChildToTake(prob_node.children, run.nodes[run.node].visits)]]_vars

\* selection has just gone from the root to a child that is not the first of
\* its list, at a time when all children of the list had been visited
C31_Witness ==
    /\ run.pc = "select"
    /\ Len(run.node) = 2
    /\ LET children == run.nodes[RootId].probability_children[run.die].children
       IN  /\ \A i \in DOMAIN children : run.nodes[children[i]].visits > 0
           /\ \E i \in DOMAIN children : i > 1 /\ run.node = children[i]

\* the nodes of the tree that are the same before and after a step
Untouched(ids) == \A id \in ids : id \in DOMAIN run'.nodes /\ run'.nodes[id] = run.nodes[id]

RECURSIVE FirstParentWalk(_)
FirstParentWalk(id) ==
    IF run.nodes[id].parent_prob_nodes = <<>>
    THEN <<id>>
    ELSE LET first == run.nodes[id].parent_prob_nodes[1]
         IN  <<id>> \o FirstParentWalk(
                          run.nodes[first[1]].probability_children[first[2]].parent_mcts_node)

\* C33: back-propagating a result r from a node N adds one visit to N and to
\* every node on the walk from N along first parent ChanceNodes, and to no
\* other node; the value of N grows by r and that of the node k steps up the
\* walk by r when k is even and by -r when k is odd; the walk ends at the root.
\* (Values are held in half points, so r is 0, 1 or 2.)
C33_BackPropagation ==
    [][(run.pc = "simulate" /\ run'.pc # "simulate") =>
          LET walk == FirstParentWalk(run.node)
              r == run'.nodes[run.node].wins - run.nodes[run.node].wins
          IN  /\ r \in {0, 1, 2}
              /\ walk[Len(walk)] = RootId
              /\ \A a, b \in DOMAIN walk : walk[a] = walk[b] => a = b
              /\ \A k \in 0..(Len(walk) - 1) :
                     /\ run'.nodes[walk[k + 1]].visits = run.nodes[walk[k + 1]].visits + 1
                     /\ run'.nodes[walk[k + 1]].wins =
                            run.nodes[walk[k + 1]].wins + (IF k % 2 = 0 THEN r ELSE -r)
              /\ \A id \in DOMAIN run.nodes \ Range(walk) :
                     run'.nodes[id] = run.nodes[id]]_vars

\* a result other than the even one has been propagated from a node two steps
\* below the root
C33_Witness ==
    \E id \in DOMAIN run.nodes :
        /\ Len(id) = 3
        /\ id \in DOMAIN run.rollouts
        /\ run.nodes[id].visits = 1
        /\ run.nodes[id].wins # 0
        /\ run.pc = "select"

\* the children select_best_move_child_ucb computes the UCB value of: those
\* before the first unvisited one
Evaluated(children) ==
    {i \in DOMAIN children : \A j \in 1..i : run.nodes[children[j]].visits # 0}

\* C37: the UCB formula is never evaluated with an undefined term.  In every
\* state of the search a node has at least as many visits as each of its child
\* nodes; so for every child whose UCB value select_best_move_child_ucb would
\* compute, the child and the parent have one visit or more, and no selection
\* step ends in the exception of math.log or of the division.
C37_UcbDefined ==
    /\ run.raised # "ValueError"
    /\ \A id \in DOMAIN run.nodes :
           LET self == run.nodes[id]
           IN  /\ \A c \in ChildNodes(id) : self.visits >= run.nodes[c].visits
               /\ \A d \in DOMAIN self.probability_children :
                      LET children == self.probability_children[d].children
                      IN  /\ \A i \in Evaluated(children) :
                                 /\ run.nodes[children[i]].visits >= 1
                                 /\ self.visits >= 1
                          /\ select_best_move_child_ucb(
                                 run.nodes, id, self.probability_children[d]) # -1

\* selection stands at a node whose children under a die it can draw have all
\* been visited: the UCB value of each of them is computed next
C37_Witness ==
    /\ run.pc = "select"
    /\ select_continues(run)
    /\ \E d \in select_probability_child_random(run.nodes[run.node]) :
           LET children == run.nodes[run.node].probability_children[d].children
           IN  /\ Len(children) >= 2
               /\ Evaluated(children) = DOMAIN children

\* the ProbabilityNode a parent reference <<node, die>> names
ProbNodeAt(ref) == run.nodes[ref[1]].probability_children[ref[2]]

C40_Links ==
    \A n \in DOMAIN run.nodes :
        LET self == run.nodes[n]
        IN  /\ Len(self.probability_children) \in {0, 6}
            /\ NoDuplicates(self.parent_prob_nodes)
            /\ (self.parent_prob_nodes = <<>>) <=> (n = RootId)
            /\ \A ref \in Range(self.parent_prob_nodes) :
                   /\ ref[1] \in DOMAIN run.nodes
                   /\ ref[2] \in DOMAIN run.nodes[ref[1]].probability_children
                   /\ n \in Range(ProbNodeAt(ref).children)
            /\ \A ref1, ref2 \in Range(self.parent_prob_nodes) :
                   ProbNodeAt(ref1).parent_mcts_node = ProbNodeAt(ref2).parent_mcts_node
            /\ \A d \in DOMAIN self.probability_children :
                   LET prob_node == self.probability_children[d]
                   IN  /\ prob_node.parent_mcts_node = n
                       /\ NoDuplicates(prob_node.children)
                       /\ \A c \in Range(prob_node.children) :
                              /\ c \in DOMAIN run.nodes
                              /\ <<n, d>> \in Range(run.nodes[c].parent_prob_nodes)

\* C40: parent and child links of the tree are consistent in every state: a
\* node is in the child list of a ProbabilityNode exactly when that
\* ProbabilityNode is in the node's parent list, each at most once; every node
\* has no or six ProbabilityNodes; all parents of a node belong to one and the
\* same node; and the walk along first parents from the node selection stands
\* at passes exactly the nodes selection came down through (each step down
\* puts the new node in front of the walk of the node it left).
C40_LinksConsistent ==
    /\ []C40_Links
    /\ [](run.pc \in {"select", "simulate"} =>
             LET walk == FirstParentWalk(run.node)
             IN  walk[Len(walk)] = RootId /\ NoDuplicates(walk))
    /\ [][(run.pc = "select" /\ run'.pc = "select" /\ run'.node # run.node) =>
             /\ run'.nodes = run.nodes
             /\ FirstParentWalk(run'.node) = <<run'.node>> \o FirstParentWalk(run.node)]_vars

\* selection has come down to a node that is a child under several dice of
\* its parent, and its rollout has begun
C40_Witness ==
    /\ run.pc = "simulate"
    /\ run.node # RootId
    /\ Len(run.nodes[run.node].parent_prob_nodes) >= 2
    /\ Len(run.nodes[run.node].parent_prob_nodes) < 6
    /\ Len(FirstParentWalk(run.node)) >= 2

(***************************************************************************)
(* single_battle: the claims                                               *)
(***************************************************************************)
StartBoard == battle.board_states[1]
LoggedMove(i) == SubSeq(battle.move_history[i], 1, 4)
LoggedPlayer(i) == battle.move_history[i][5]
LoggedDie(i) == battle.move_history[i][6]

\* C15: single_battle gives the first move to Red, the owner of tokens 1..6: the
\* first entry of the move log, if any, moves a Red token.
C15_RedMovesFirst ==
    battle.move_history # <<>> =>
        /\ LoggedPlayer(1) = Red
        /\ At(StartBoard, LoggedMove(1)[1], LoggedMove(1)[2]) \in RedTokens

\* C16: single_battle always terminates: the loop ends after finitely many rounds
\* with the move count within max_moves.
C16_Terminates ==
    /\ [](battle.move_count <= battle.max_moves)
    /\ <>(battle.pc # "loop")

\* A game was returned that ran into max_moves on a board that is not terminal.
C16_Witness ==
    /\ battle.pc = "returned"
    /\ battle.max_moves >= 2
    /\ battle.result.total_moves = battle.max_moves
    /\ ~is_game_over(battle.result.final_board)

\* C17: the GameResult names as winner the side whose terminal condition holds on
\* final_board when the game ended on a terminal board, and a draw exactly when the
\* game ended by max_moves on a board that is not terminal; final_board is the last
\* board of the game.
C17_ResultNamesOutcome ==
    battle.pc = "returned" =>
        LET result == battle.result
            final == result.final_board
        IN  /\ final = result.board_states[Len(result.board_states)]
            /\ final = battle.board
            /\ is_game_over(final) =>
                   /\ result.winner \in {Red, Blue}
                   /\ result.winner = Red => (RedOnGoal(final) \/ BlueGone(final))
                   /\ result.winner = Blue => (BlueOnGoal(final) \/ RedGone(final))
            /\ (result.winner = 0) <=>
                   (~is_game_over(final) /\ result.total_moves >= battle.max_moves)

\* The move that used up max_moves also ended the game, and its side is the winner.
C17_Witness ==
    /\ battle.pc = "returned"
    /\ battle.result.total_moves = battle.max_moves
    /\ battle.max_moves >= 1
    /\ is_game_over(battle.result.final_board)
    /\ battle.result.winner = LoggedPlayer(Len(battle.move_history))

\* C18: in every GameResult the snapshot list has one more entry than the move log
\* and total_moves is the length of the log; snapshot 0 is the initial board, each
\* next snapshot is make_move of the one before with the logged move, and each
\* logged move is legal for the snapshot, die and player logged with it.
C18_LogMatchesSnapshots ==
    battle.pc = "returned" =>
        LET result == battle.result
        IN  /\ Len(result.board_states) = Len(result.move_history) + 1
            /\ result.total_moves = Len(result.move_history)
            /\ result.move_history = battle.move_history
            /\ result.board_states[1] =
                   (IF battle.initial_board # None THEN battle.initial_board
                    ELSE _generate_default_board(battle.empty_positions))
            /\ \A i \in 1..Len(result.move_history) :
                   /\ result.board_states[i + 1]
                          = make_move(result.board_states[i], LoggedMove(i)).new_board
                   /\ LoggedMove(i) \in Range(get_legal_moves(
                          result.board_states[i], LoggedDie(i), LoggedPlayer(i)))

\* A returned game logged three moves, one of them chosen by a search that had
\* several legal moves to pick from.
C18_Witness ==
    /\ battle.pc = "returned"
    /\ Len(battle.result.move_history) >= 3
    /\ \E i \in 1..Len(battle.move_history) :
          /\ Len(get_legal_moves(battle.board_states[i], LoggedDie(i), LoggedPlayer(i))) >= 2
          /\ LoggedMove(i) # get_legal_moves(battle.board_states[i],
                                              LoggedDie(i), LoggedPlayer(i))[1]

\* C35: on every non-terminal board with unique tokens get_legal_moves is
\* non-empty for every die and for both players, and consecutive entries of the
\* move log are by opposite players.
C35_MovesForEveryDie ==
    battle.pc # "idle" =>
        /\ (~is_game_over(battle.board) /\ UniqueTokens(battle.board)) =>
               \A die \in Dice, player \in Players :
                   get_legal_moves(battle.board, die, player) # <<>>
        /\ \A i \in 1..(Len(battle.move_history) - 1) :
               battle.move_history[i + 1][5] = -battle.move_history[i][5]

\* C35, in full: besides, every iteration of the loop of single_battle applies
\* exactly one move (no turn is passed): it adds one entry to the log, by the
\* side whose turn it was, and hands the turn to the other side.
C35_EveryTurnMoves ==
    /\ []C35_MovesForEveryDie
    /\ [][(battle.pc = "loop" /\ battle_continues(battle)) =>
             /\ battle'.move_count = battle.move_count + 1
             /\ Len(battle'.move_history) = Len(battle.move_history) + 1
             /\ battle'.move_history[Len(battle'.move_history)][5]
                    = battle.current_player
             /\ battle'.current_player = -battle.current_player]_vars

\* C38: every game single_battle starts from the default opening begins on a
\* non-terminal board (no Red token on (4,4), no Blue token on (0,0)), so that,
\* given a move limit of one or more, its GameResult has total_moves >= 1.
C38_DefaultGameIsPlayed ==
    (battle.pc # "idle" /\ battle.initial_board = None) =>
        LET start == battle.board_states[1]
        IN  /\ At(start, 4, 4) \notin RedTokens
            /\ At(start, 0, 0) \notin BlueTokens
            /\ ~is_game_over(start)
            /\ (battle.result # None /\ battle.max_moves >= 1) =>
                   battle.result.total_moves >= 1

(***************************************************************************)
(* batch_battle: the claims                                                *)
(***************************************************************************)
RECURSIVE ResultsOf(_)
ResultsOf(outcomes) ==
    IF outcomes = <<>>
    THEN <<>>
    ELSE (IF Head(outcomes).raised THEN <<>> ELSE <<Head(outcomes).result>>)
         \o ResultsOf(Tail(outcomes))

\* C19: whichever games of a batch raise (all of them included), in any call of a
\* sequence of calls on one AIBattleSystem, batch_battle returns normally and its
\* result holds exactly the GameResults of the games that did not fail.
C19_BatchTolerates ==
    /\ harness.pc # "raised"
    /\ harness.pc = "returned" =>
           /\ Len(harness.outcomes) = harness.num_games
           /\ harness.returned = ResultsOf(harness.outcomes)

\* C20: games running in parallel share no mutable state, each has its own random
\* generator: the dice a game observes do not depend on how it is interleaved with
\* the other games (under any two schedules a game rolls the same dice).
C20_DiceIgnoreSchedule ==
    \A game_idx \in 1..NumWorkers :
        LET left == workers.left.dice[game_idx]
            right == workers.right.dice[game_idx]
        IN  \A k \in 1..Len(left) : k <= Len(right) => left[k] = right[k]

\* C21: batch_battle calls the progress callback once for every game that
\* completes, and the k-th call reports k completed games, in the serial branch
\* and in the pool branch, whether or not other games of the batch failed.
C21_ProgressCounts ==
    harness.pc \in {"games", "returned", "raised"} =>
        harness.progress = [k \in 1..Len(harness.results) |-> k]

\* C24: from a GameResult of single_battle the extraction makes one sample per
\* snapshot but the last, total_moves samples in all; sample i holds snapshot i,
\* move_index i, the player of logged move i as current_player, and as value
\* 1 when that player won the game, -1 when the opponent won, 0 for a draw.
C24_TrainingSamples ==
    battle.pc = "extracted" =>
        LET result == battle.result
            samples == battle.training_samples
        IN  /\ Len(samples) = result.total_moves
            /\ Len(samples) = Len(result.board_states) - 1
            /\ \A i \in 0..(Len(samples) - 1) :
                   LET sample == samples[i + 1]
                       mover == result.move_history[i + 1][5]
                   IN  /\ sample.board_state = result.board_states[i + 1]
                       /\ sample.move_index = i
                       /\ sample.current_player = mover
                       /\ sample.value = IF result.winner = 0 THEN 0
                                         ELSE IF result.winner = mover THEN 1 ELSE -1

\* a decided game of at least two moves: a sample of the winner and one of the loser
C24_Witness ==
    /\ battle.pc = "extracted"
    /\ battle.result.winner # 0
    /\ \E a, b \in DOMAIN battle.training_samples :
           /\ battle.training_samples[a].value = 1
           /\ battle.training_samples[b].value = -1

\* the cells of b that hold token
CellsOf(b, token) == {c \in Cells : At(b, c[1], c[2]) = token}

\* C25: every default opening has 12 on (0,4), 11 on (1,3), 10, 9, 8 on (2,2),
\* (2,3), (2,4), 7 on (3,1) and 1 on (4,0); each of the tokens 2..6 stands on
\* exactly one cell, a cell that is empty in the fixed layout; so each of the
\* twelve tokens is on the board exactly once and thirteen cells are empty.
C25_DefaultOpening ==
    opening.pc = "placed" =>
        LET b == opening.board
        IN  /\ At(b, 0, 4) = 12 /\ At(b, 1, 3) = 11
            /\ At(b, 2, 2) = 10 /\ At(b, 2, 3) = 9 /\ At(b, 2, 4) = 8
            /\ At(b, 3, 1) = 7 /\ At(b, 4, 0) = 1
            /\ \A token \in 2..6 :
                   /\ Cardinality(CellsOf(b, token)) = 1
                   /\ \A c \in CellsOf(b, token) : At(fixed_layout, c[1], c[2]) = 0
            /\ \A token \in 1..12 : Cardinality(CellsOf(b, token)) = 1
            /\ Cardinality(CellsOf(b, 0)) = 13

\* an opening with a shuffled token on Red's goal cell
C25_Witness ==
    /\ opening.pc = "placed"
    /\ At(opening.board, 4, 4) \in 2..6

(***************************************************************************)
(* tournament: the claims                                                  *)
(***************************************************************************)
\* the batch_battle calls made for the pair (i, j) of ai_configs (indices from 0)
CallsFor(i, j) ==
    {k \in DOMAIN tournament.calls :
        tournament.calls[k].i = i /\ tournament.calls[k].j = j}

\* C22: a tournament plays every pair i < j of the configured AIs exactly once
\* and no AI against itself; each match is one batch of games_per_match games
\* in which AI i is the Red side and AI j the Blue side.
C22_RoundRobin ==
    tournament.pc = "returned" =>
        /\ \A i, j \in 0..(Len(tournament.ai_configs) - 1) :
               Cardinality(CallsFor(i, j)) = IF i < j THEN 1 ELSE 0
        /\ \A k \in DOMAIN tournament.calls :
               LET call == tournament.calls[k]
               IN  /\ call.num_games = tournament.games_per_match
                   /\ call.red_ai.name = tournament.ai_configs[call.i + 1]
                   /\ call.red_ai.player_id = Red
                   /\ call.blue_ai.name = tournament.ai_configs[call.j + 1]
                   /\ call.blue_ai.player_id = Blue

DistinctNames ==
    \A a, b \in DOMAIN tournament.ai_configs :
        tournament.ai_configs[a] = tournament.ai_configs[b] => a = b

\* the matches name won (strictly more game wins than the opponent)
MatchesWon(name) ==
    {k \in DOMAIN tournament.match_results :
        LET m == tournament.match_results[k]
        IN  \/ m.ai1 = name /\ m.ai1_wins > m.ai2_wins
            \/ m.ai2 = name /\ m.ai2_wins > m.ai1_wins}

\* the matches name took part in that ended with equal game wins
MatchesTied(name) ==
    {k \in DOMAIN tournament.match_results :
        LET m == tournament.match_results[k]
        IN  name \in {m.ai1, m.ai2} /\ m.ai1_wins = m.ai2_wins}

\* C23: when the participants' names are distinct, a participant's score is
\* 3 for every match it won plus 1 for every tied match it played, a lost
\* match adding nothing, and the final ranking lists every participant once,
\* with its score, by non-increasing score.
C23_Scoring ==
    (tournament.pc = "returned" /\ DistinctNames) =>
        /\ \A name \in Range(tournament.ai_configs) :
               tournament.ai_scores[name] =
                   3 * Cardinality(MatchesWon(name)) + Cardinality(MatchesTied(name))
        /\ Len(tournament.final_ranking) = Len(tournament.ai_configs)
        /\ \A name \in Range(tournament.ai_configs) :
               \E k \in DOMAIN tournament.final_ranking :
                   tournament.final_ranking[k] = <<name, tournament.ai_scores[name]>>
        /\ \A k \in 1..(Len(tournament.final_ranking) - 1) :
               tournament.final_ranking[k][2] >= tournament.final_ranking[k + 1][2]

\* the spec's example: A beats B 6-4, A ties C 5-5, B beats C 7-3
C23_Witness ==
    /\ tournament.pc = "returned"
    /\ tournament.ai_configs = <<"A", "B", "C">>
    /\ Len(tournament.match_results) = 3
    /\ tournament.match_results[1].ai1_wins = 6 /\ tournament.match_results[1].ai2_wins = 4
    /\ tournament.match_results[2].ai1_wins = 5 /\ tournament.match_results[2].ai2_wins = 5
    /\ tournament.match_results[3].ai1_wins = 7 /\ tournament.match_results[3].ai2_wins = 3
    /\ tournament.final_ranking = << <<"A", 4>>, <<"B", 3>>, <<"C", 1>> >>

(***************************************************************************)
(* UCB selection: the claims                                               *)
(***************************************************************************)
\* C26: the exploration constant c of the searcher scales the exploration term
\* of the UCB value (mean + c * square-root term); so with c = 0 the selection
\* among children that all have been visited returns a child of highest mean.
C26_ConstantScalesExploration ==
    (/\ selection.pc = "returned"
     /\ selection.exploration_constant = 0
     /\ \A k \in 1..2 : selection.nodes[k].visits > 0) =>
        LET best == selection.nodes[selection.best_child]
        IN  \A k \in 1..2 :
                best.wins * selection.nodes[k].visits
                    >= selection.nodes[k].wins * best.visits

(***************************************************************************)
(* File exchange: the claims                                               *)
(***************************************************************************)
\* the input is illegal: no file, a file that cannot be parsed, a die outside
\* 1..6 or a difficulty outside {3, 4, 5}
IllegalInput(file) ==
    \/ ~parses(file)
    \/ file[1][2] \notin 1..6
    \/ file[1][1] \notin {3, 4, 5}

\* the five board lines of the input file, where it has them
HasBoardLines(file) ==
    /\ file # None
    /\ Len(file) >= 6
    /\ \A i \in 2..6 : Len(file[i]) = board_size

\* C28: on illegal input the Red program runs no search and applies no move,
\* and the board it writes is the board of the input file as it was read,
\* never a default board put in its place.
C28_IllegalInputRefused ==
    (exchange.pc = "written" /\ IllegalInput(exchange.file)) =>
        /\ exchange.search_calls = <<>>
        /\ exchange.best_move = None
        /\ HasBoardLines(exchange.file) => exchange.output = SubSeq(exchange.file, 2, 6)
        /\ ~HasBoardLines(exchange.file) => exchange.output # Rows(BoardOf({}))

(***************************************************************************)
(* evaluate_position: the claims                                           *)
(***************************************************************************)
GoalOf(player) == IF player = Red THEN <<4, 4>> ELSE <<0, 0>>

Manhattan(c, d) ==
    (IF c[1] >= d[1] THEN c[1] - d[1] ELSE d[1] - c[1])
    + (IF c[2] >= d[2] THEN c[2] - d[2] ELSE d[2] - c[2])

CellsWith(b, tokens) == {c \in Cells : At(b, c[1], c[2]) \in tokens}

\* the sum, over the cells of b that hold a token of player, of 10 minus the
\* Manhattan distance from the cell to the goal corner of player
Closeness(b, player) ==
    SumOver([c \in Cells |-> 10 - Manhattan(c, GoalOf(player))],
            CellsWith(b, OwnTokens(player)))

C34_RolloutStates ==
    /\ rollout.pc \in {"loop", "returned"} =>
           /\ rollout.moves_count \in 0..max_moves
           /\ rollout.current_player =
                  IF rollout.moves_count % 2 = 0
                  THEN rollout.self.player ELSE -rollout.self.player
           /\ \E b \in RolloutBoards, player \in Players :
                  rollout.self = MCTSNode(b, player, None, FALSE)
    /\ rollout.pc = "returned" =>
           LET winner == get_winner(rollout.current_board)
               stopped == ~is_game_over(rollout.current_board)
           IN  /\ rollout.result \in {0, 1, 2}
               /\ rollout.result = 0 <=> winner = rollout.self.player
               /\ rollout.result = 2 <=> winner = -rollout.self.player
               /\ rollout.result = 1 <=> winner = 0
               /\ winner = 0 <=>
                      /\ stopped
                      /\ \/ rollout.moves_count >= max_moves
                         \/ \E die \in Dice :
                                get_legal_moves(rollout.current_board, die,
                                                rollout.current_player) = <<>>

OwnerOf(piece) == IF piece \in RedTokens THEN Red ELSE Blue

\* C39: the window and the engine agree on the colour a player value denotes.
\* After a click during the turn of side p: the tokens the engine generates
\* moves for under (board, die, p) are tokens is_player_piece gives to p; and if
\* the clicked token is p's by is_player_piece, is selected by the die among
\* the tokens of its colour and has a step inside the grid, then the token
\* is selected and at least one legal move is offered.
C39_ColoursAgree ==
    (gui.pc = "human" /\ gui.clicked # None) =>
        LET p == gui.current_player
            row == gui.clicked[1]
            col == gui.clicked[2]
            piece == At(gui.board, row, col)
        IN  /\ \A m \in Range(get_legal_moves(gui.board, gui.current_die, p)) :
                   is_player_piece(At(gui.board, m[1], m[2]), p)
            /\ ( /\ piece # 0
                 /\ is_player_piece(piece, p)
                 /\ \E m \in Range(get_legal_moves(gui.board, gui.current_die,
                                                    OwnerOf(piece))) :
                        m[1] = row /\ m[2] = col )
               => /\ gui.selected_piece = <<row, col>>
                  /\ gui.legal_moves # <<>>

====
